---- MODULE Spec2Model ----
(***************************************************************************)
(* Verification model of the cooking-assistant repository: the paragraph / *)
(* sentence text chunker, the parent-child chunking service, the document  *)
(* sync engine (syncDocumentsCore / processFiles) with its two stores, and *)
(* retrieval (MyCustomRetrieverService.retrieve, alone and under           *)
(* MyCustomGeneratorService.generate).  Strings are sequences of           *)
(* one-character strings.                                                  *)
(***************************************************************************)
EXTENDS Integers, Sequences, FiniteSets, TLC

(***************************************************************************)
(* Bounds of the model.                                                    *)
(***************************************************************************)
\* longest text handed to the text chunker
MaxLen == 5
\* largest chunkSize / chunkOverlap argument tried
MaxChunkSize == 3
\* number of sync runs started
MaxRuns == 3
\* longest text handed to the chunking service (all texts up to it)
MaxServiceLen == 4
\* most matches a vector query returns (nResults)
MaxMatches == 3

(***************************************************************************)
(* Characters.  One representative per class the chunker distinguishes:    *)
(* lower-case letter, upper-case letter ([A-Z]), sentence punctuation      *)
(* ([.!?]), blank, line feed.                                              *)
(***************************************************************************)
NL == "\n"
Alphabet == {"a", "A", ".", " ", NL}
Whitespace == {" ", NL}
SentenceEnd == {"."}
UpperCase == {"A"}

\* the part of the paragraph separator regex that is a bare line feed
PARAGRAPH_SEPARATOR == <<NL, NL>>

Min(a, b) == IF a <= b THEN a ELSE b

\* String.prototype.trim
RECURSIVE TrimStart(_)
TrimStart(s) ==
  IF s # <<>> /\ Head(s) \in Whitespace THEN TrimStart(Tail(s)) ELSE s

RECURSIVE TrimEnd(_)
TrimEnd(s) ==
  IF s # <<>> /\ s[Len(s)] \in Whitespace
    THEN TrimEnd(SubSeq(s, 1, Len(s) - 1))
    ELSE s

Trim(s) == TrimEnd(TrimStart(s))

\* String.prototype.slice(from, to) with 0-based, non-negative arguments
Slice(s, from, to) == SubSeq(s, from + 1, Min(to, Len(s)))

\* String.prototype.slice(-n) for n > 0: the last n characters
SliceLast(s, n) == SubSeq(s, Len(s) - Min(n, Len(s)) + 1, Len(s))

\* the test of the paragraph filter: p.trim().length > 0
NonBlank(p) == Len(Trim(p)) > 0

\* the first index >= i of s that holds no line feed (Len(s) + 1 if none)
RECURSIVE SkipNewlines(_, _)
SkipNewlines(s, i) ==
  IF i <= Len(s) /\ s[i] = NL THEN SkipNewlines(s, i + 1) ELSE i

\* content.split(/\n\n+/): i scans s, start is where the current piece began
RECURSIVE SplitParagraphsFrom(_, _, _)
SplitParagraphsFrom(s, start, i) ==
  IF i > Len(s) THEN <<SubSeq(s, start, Len(s))>>
  ELSE IF i < Len(s) /\ SubSeq(s, i, i + 1) = PARAGRAPH_SEPARATOR
    THEN LET j == SkipNewlines(s, i)
         IN  <<SubSeq(s, start, i - 1)>> \o SplitParagraphsFrom(s, j, j)
  ELSE SplitParagraphsFrom(s, start, i + 1)

SplitParagraphs(s) == SplitParagraphsFrom(s, 1, 1)

\* the first index >= i of s that holds no whitespace (Len(s) + 1 if none)
RECURSIVE SkipWhitespace(_, _)
SkipWhitespace(s, i) ==
  IF i <= Len(s) /\ s[i] \in Whitespace THEN SkipWhitespace(s, i + 1) ELSE i

\* paragraph.split(/(?<=[.!?])\s+(?=[A-Z])/)
RECURSIVE SplitSentencesFrom(_, _, _)
SplitSentencesFrom(s, start, i) ==
  IF i > Len(s) THEN <<SubSeq(s, start, Len(s))>>
  ELSE IF i > 1 /\ s[i - 1] \in SentenceEnd /\ s[i] \in Whitespace
    THEN LET j == SkipWhitespace(s, i)
         IN  IF j <= Len(s) /\ s[j] \in UpperCase
               THEN <<SubSeq(s, start, i - 1)>> \o SplitSentencesFrom(s, j, j)
               ELSE SplitSentencesFrom(s, start, i + 1)
  ELSE SplitSentencesFrom(s, start, i + 1)

SplitSentences(s) == SplitSentencesFrom(s, 1, 1)

\* mutant: the final, shorter slice is dropped
RECURSIVE hardSplitDropRemainder(_, _, _)
hardSplitDropRemainder(text, chunkSize, i) ==
  IF i + chunkSize <= Len(text)
    THEN <<Slice(text, i, i + chunkSize)>> \o hardSplitDropRemainder(text, chunkSize, i + chunkSize)
    ELSE <<>>

hardSplitText_DropRemainder(text, chunkSize) == hardSplitDropRemainder(text, chunkSize, 0)

\* mutant: the text is not cut at all
hardSplitText_NoSplit(text, chunkSize) == <<text>>

\* ParagraphSentenceChunker.hardSplitText
RECURSIVE hardSplitFrom(_, _, _)
hardSplitFrom(text, chunkSize, i) ==
  IF i < Len(text)
    THEN <<Slice(text, i, i + chunkSize)>> \o hardSplitFrom(text, chunkSize, i + chunkSize)
    ELSE <<>>

hardSplitText(text, chunkSize) == hardSplitFrom(text, chunkSize, 0)

\* the loop of splitLargeParagraph over sentences[i..], with the chunks pushed
\* so far and the running currentChunk
RECURSIVE sentenceLoop(_, _, _, _, _)
sentenceLoop(sentences, chunkSize, i, chunks, currentChunk) ==
  IF i > Len(sentences)
    THEN IF Len(currentChunk) > 0 THEN Append(chunks, currentChunk) ELSE chunks
  ELSE IF Len(sentences[i]) > chunkSize
    THEN sentenceLoop(sentences, chunkSize, i + 1,
           (IF Len(currentChunk) > 0 THEN Append(chunks, currentChunk) ELSE chunks)
             \o hardSplitText(sentences[i], chunkSize),
           <<>>)
  ELSE LET potentialChunk == currentChunk \o sentences[i]
       IN  IF Len(potentialChunk) <= chunkSize \/ Len(currentChunk) = 0
             THEN sentenceLoop(sentences, chunkSize, i + 1, chunks, potentialChunk)
             ELSE sentenceLoop(sentences, chunkSize, i + 1,
                    Append(chunks, currentChunk), sentences[i])

\* ParagraphSentenceChunker.splitLargeParagraph
splitLargeParagraph(paragraph, chunkSize) ==
  LET split == SplitSentences(paragraph)
      sentences == IF Len(split) = 0 THEN <<paragraph>> ELSE split
      chunks == sentenceLoop(sentences, chunkSize, 1, <<>>, <<>>)
  IN  IF Len(chunks) > 0 THEN chunks ELSE <<paragraph>>

\* mutant: no overlap is prepended
applyOverlapToChunks_None(chunks, overlap) == chunks

\* ParagraphSentenceChunker.applyOverlapToChunks
applyOverlapToChunks(chunks, overlap) ==
  [i \in 1..Len(chunks) |->
     IF i > 1
       THEN LET previousChunk == chunks[i - 1]
                actualOverlap == Min(overlap, Len(previousChunk))
            IN  SliceLast(previousChunk, actualOverlap) \o chunks[i]
       ELSE chunks[i]]

\* the paragraph loop of splitIntoParagraphAwareChunks
RECURSIVE paragraphLoop(_, _, _, _, _)
paragraphLoop(paragraphs, chunkSize, i, chunks, currentChunk) ==
  IF i > Len(paragraphs)
    THEN IF Len(currentChunk) > 0 THEN Append(chunks, currentChunk) ELSE chunks
  ELSE LET paragraph == paragraphs[i]
           separator == IF Len(currentChunk) > 0 THEN PARAGRAPH_SEPARATOR ELSE <<>>
           potentialChunk == currentChunk \o separator \o paragraph
       IN  IF Len(currentChunk) = 0 /\ Len(paragraph) > chunkSize
             THEN paragraphLoop(paragraphs, chunkSize, i + 1,
                    chunks \o splitLargeParagraph(paragraph, chunkSize), currentChunk)
           ELSE IF Len(potentialChunk) <= chunkSize \/ Len(currentChunk) = 0
             THEN paragraphLoop(paragraphs, chunkSize, i + 1, chunks, potentialChunk)
           ELSE IF Len(paragraph) > chunkSize
             THEN paragraphLoop(paragraphs, chunkSize, i + 1,
                    Append(chunks, currentChunk) \o splitLargeParagraph(paragraph, chunkSize),
                    <<>>)
           ELSE paragraphLoop(paragraphs, chunkSize, i + 1,
                  Append(chunks, currentChunk), paragraph)

\* the chunks of splitIntoParagraphAwareChunks before the overlap is applied
preOverlapChunks(content, chunkSize) ==
  paragraphLoop(SelectSeq(SplitParagraphs(content), NonBlank), chunkSize, 1, <<>>, <<>>)

\* ParagraphSentenceChunker.splitIntoParagraphAwareChunks
splitIntoParagraphAwareChunks(content, chunkSize, chunkOverlap) ==
  LET chunks == preOverlapChunks(content, chunkSize)
  IN  IF chunkOverlap > 0 /\ Len(chunks) > 1
        THEN applyOverlapToChunks(chunks, chunkOverlap)
        ELSE chunks

\* ParagraphSentenceChunker.chunk: the chunks, or the Error thrown
Thrown(msg) == [ok |-> FALSE, error |-> msg, chunks |-> <<>>]
Returned(chunks) == [ok |-> TRUE, error |-> "", chunks |-> chunks]

\* mutant: the overlap is not validated
chunk_OverlapUnchecked(content, chunkSize, chunkOverlap) ==
  IF chunkSize <= 0 THEN Thrown("Chunk size must be greater than 0")
  ELSE LET trimmedContent == Trim(content)
       IN  IF Len(trimmedContent) = 0 THEN Returned(<<>>)
           ELSE IF Len(trimmedContent) <= chunkSize THEN Returned(<<trimmedContent>>)
           ELSE Returned(splitIntoParagraphAwareChunks(trimmedContent, chunkSize, chunkOverlap))

\* mutant: a short text is returned as it came, untrimmed
chunk_ShortUntrimmed(content, chunkSize, chunkOverlap) ==
  IF chunkSize <= 0 THEN Thrown("Chunk size must be greater than 0")
  ELSE IF chunkOverlap >= chunkSize THEN Thrown("Chunk overlap must be less than chunk size")
  ELSE IF chunkOverlap < 0 THEN Thrown("Chunk overlap must be non-negative")
  ELSE LET trimmedContent == Trim(content)
       IN  IF Len(trimmedContent) = 0 THEN Returned(<<>>)
           ELSE IF Len(trimmedContent) <= chunkSize THEN Returned(<<content>>)
           ELSE Returned(splitIntoParagraphAwareChunks(trimmedContent, chunkSize, chunkOverlap))

\* mutant: a blank text comes back as one empty chunk
chunk_BlankOneChunk(content, chunkSize, chunkOverlap) ==
  IF chunkSize <= 0 THEN Thrown("Chunk size must be greater than 0")
  ELSE IF chunkOverlap >= chunkSize THEN Thrown("Chunk overlap must be less than chunk size")
  ELSE IF chunkOverlap < 0 THEN Thrown("Chunk overlap must be non-negative")
  ELSE LET trimmedContent == Trim(content)
       IN  IF Len(trimmedContent) <= chunkSize THEN Returned(<<trimmedContent>>)
           ELSE Returned(splitIntoParagraphAwareChunks(trimmedContent, chunkSize, chunkOverlap))

chunk(content, chunkSize, chunkOverlap) ==
  IF chunkSize <= 0 THEN Thrown("Chunk size must be greater than 0")
  ELSE IF chunkOverlap >= chunkSize THEN Thrown("Chunk overlap must be less than chunk size")
  ELSE IF chunkOverlap < 0 THEN Thrown("Chunk overlap must be non-negative")
  ELSE LET trimmedContent == Trim(content)
       IN  IF Len(trimmedContent) = 0 THEN Returned(<<>>)
           ELSE IF Len(trimmedContent) <= chunkSize THEN Returned(<<trimmedContent>>)
           ELSE Returned(splitIntoParagraphAwareChunks(trimmedContent, chunkSize, chunkOverlap))

(***************************************************************************)
(* ParentChildChunkingService.  A factor (a JS number) is a rational       *)
(* <<numerator, denominator>> with denominator > 0.                        *)
(***************************************************************************)
\* Math.floor(n * factor) for n >= 0 and factor >= 0
FloorTimes(n, factor) == (n * factor[1]) \div factor[2]

\* factor < k, factor <= k, factor >= k for an integer k
FactorLess(factor, k) == factor[1] < k * factor[2]
FactorAtMost(factor, k) == factor[1] <= k * factor[2]
FactorAtLeast(factor, k) == factor[1] >= k * factor[2]

\* mutant: parentChunkSizeFactor is not validated
create_ParentFactorUnchecked(config) ==
  IF config.childChunkSize <= 0
    THEN [ok |-> FALSE, error |-> "childChunkSize must be > 0"]
  ELSE IF FactorAtMost(config.childChunkOverlapFactor, 0)
          \/ FactorAtLeast(config.childChunkOverlapFactor, 1)
    THEN [ok |-> FALSE, error |-> "childChunkOverlapFactor must be > 0 and < 1"]
  ELSE [ok |-> TRUE, error |-> "",
        childChunkSize |-> config.childChunkSize,
        childChunkOverlap |-> FloorTimes(config.childChunkSize, config.childChunkOverlapFactor),
        parentChunkSize |-> FloorTimes(config.childChunkSize, config.parentChunkSizeFactor)]

\* ParentChildChunkingService.create: the service, or the Error thrown
create(config) ==
  IF config.childChunkSize <= 0
    THEN [ok |-> FALSE, error |-> "childChunkSize must be > 0"]
  ELSE IF FactorAtMost(config.childChunkOverlapFactor, 0)
          \/ FactorAtLeast(config.childChunkOverlapFactor, 1)
    THEN [ok |-> FALSE, error |-> "childChunkOverlapFactor must be > 0 and < 1"]
  ELSE IF FactorLess(config.parentChunkSizeFactor, 1)
    THEN [ok |-> FALSE, error |-> "parentChunkSizeFactor must be >= 1"]
  ELSE [ok |-> TRUE, error |-> "",
        childChunkSize |-> config.childChunkSize,
        childChunkOverlap |-> FloorTimes(config.childChunkSize, config.childChunkOverlapFactor),
        parentChunkSize |-> FloorTimes(config.childChunkSize, config.parentChunkSizeFactor)]

\* mutant: the children are split without overlap
serviceChunk_ChildrenWithoutOverlap(service, content) ==
  IF Len(content) = 0 \/ Len(Trim(content)) = 0 THEN <<>>
  ELSE LET parentChunks == chunk(content, service.parentChunkSize, 0).chunks
       IN  [i \in 1..Len(parentChunks) |->
              [text |-> parentChunks[i],
               children |-> chunk(parentChunks[i], service.childChunkSize, 0).chunks]]

\* ParentChildChunkingService.chunk: the sequence of {text, children}
serviceChunk(service, content) ==
  IF Len(content) = 0 \/ Len(Trim(content)) = 0 THEN <<>>
  ELSE LET parentChunks == chunk(content, service.parentChunkSize, 0).chunks
       IN  [i \in 1..Len(parentChunks) |->
              [text |-> parentChunks[i],
               children |-> chunk(parentChunks[i], service.childChunkSize,
                                  service.childChunkOverlap).chunks]]

(***************************************************************************)
(* State.                                                                  *)
(***************************************************************************)
VARIABLES
  \* text-chunker call: arguments, position and result
  tcContent, tcSize, tcOverlap, tcPc, tcResult,
  \* parent store: the rows of table parents, and the AUTOINCREMENT sequence
  parents, lastRowid,
  \* vector store: the entries of the collection
  vectors,
  \* the sync run: reset flag, position (pc, phase, idx), the locals of
  \* syncDocumentsCore and of processFiles
  reset, pc, phase, idx,
  currentFiles, existingHashes, filesToAdd, filesToUpdate, filesToDelete,
  parentIds, allChildDocs,
  \* history: runs started, the stores as the run found them, the
  \* collaborator calls the run has made, whether any run was aborted,
  \* and the previous run: how it ended and the files it read, until this
  \* run has read its files; from then on whether they were the same files
  runs, parentsAtStart, vectorsAtStart, calls, aborted, previous,
  \* chunking service: the configuration handed to create, the service it
  \* returned, the content handed to chunk, its result, and the position
  svcConfig, svcService, svcContent, svcResult, svcPc,
  \* a question: the text, whether retrieve or generate was called, the
  \* position, the locals of retrieve (childMatches, parentBestSimilarity,
  \* the rows getParents returned), the outcome, and the collaborator
  \* calls made
  rtQuestion, rtMode, rtPc, rtMatches, rtBest, rtRows, rtResult, rtCalls,
  \* calls of retrieve / generate in flight on one service instance: for
  \* each call its question, mode, position, locals and outcome
  inFlight

tcVars == <<tcContent, tcSize, tcOverlap, tcPc, tcResult>>
storeVars == <<parents, lastRowid, vectors>>
runVars == <<reset, pc, phase, idx, currentFiles, existingHashes,
             filesToAdd, filesToUpdate, filesToDelete, parentIds, allChildDocs>>
histVars == <<runs, parentsAtStart, vectorsAtStart, calls, aborted, previous>>
syncVars == <<storeVars, runVars, histVars>>
svcVars == <<svcConfig, svcService, svcContent, svcResult, svcPc>>
\* what a sync run leaves alone
rtCallVars == <<rtQuestion, rtMode, rtPc, rtMatches, rtBest, rtRows, rtResult, rtCalls>>
rtVars == <<rtCallVars, inFlight>>
nonSyncVars == <<tcVars, svcVars, rtVars>>
vars == <<tcVars, syncVars, svcVars, rtVars>>

\* all strings over Alphabet of length at most n
RECURSIVE StringsUpTo(_)
StringsUpTo(n) ==
  IF n = 0 THEN {<<>>}
  ELSE LET shorter == StringsUpTo(n - 1)
       IN  shorter \cup {Append(s, c) : s \in {t \in shorter : Len(t) = n - 1}, c \in Alphabet}

\* a few longer texts: a blank paragraph between two paragraphs, three
\* sentences, a sentence too long for any chunk size tried
LongerTexts ==
  { <<"A", NL, NL, " ", NL, NL, "a">>,
    <<"A", ".", " ", "A", ".", NL, "A", "a", ".">>,
    <<"a", "a", NL, NL, NL, "A", "a", ".", " ", "A", "a", "a", "a", "a", "a">>,
    <<" ", "a", ".", " ", "a", NL, NL, "A", ".", " ", " ", "A", NL>> }

\* the chunking configuration the sync runs are checked with
SyncChunkingConfig ==
  [childChunkSize |-> 2, childChunkOverlapFactor |-> <<1, 2>>,
   parentChunkSizeFactor |-> <<2, 1>>]

chunkingService == create(SyncChunkingConfig)

\* no chunking service under test
SvcIdle ==
  /\ svcConfig = SyncChunkingConfig
  /\ svcService = chunkingService
  /\ svcContent = <<>>
  /\ svcResult = <<>>
  /\ svcPc = "idle"

TcIdle ==
  /\ tcContent = <<>>
  /\ tcSize = 1
  /\ tcOverlap = 0
  /\ tcPc = "idle"
  /\ tcResult = Returned(<<>>)

\* the outcome of retrieve / generate before it has returned
NoOutcome == [kind |-> "none", entries |-> <<>>, answer |-> "", error |-> ""]

\* the calls that may be in flight together
CallIds == {1, 2}

\* a call not yet made
IdleCall ==
  [question |-> <<>>, mode |-> "retrieve", pc |-> "idle", matches |-> <<>>,
   best |-> <<>>, rows |-> <<>>, result |-> NoOutcome, response |-> "",
   overlapped |-> FALSE]

\* no question asked
RtIdle ==
  /\ inFlight = [c \in CallIds |-> IdleCall]
  /\ rtQuestion = <<>>
  /\ rtMode = "retrieve"
  /\ rtPc = "idle"
  /\ rtMatches = <<>>
  /\ rtBest = <<>>
  /\ rtRows = <<>>
  /\ rtResult = NoOutcome
  /\ rtCalls = <<>>

\* no previous run, or one over other files
NoPrevious == [files |-> <<>>, outcome |-> "idle", sameFiles |-> FALSE]

\* no sync run started
RunIdle ==
  /\ reset = FALSE
  /\ pc = "idle"
  /\ phase = "none"
  /\ idx = 0
  /\ currentFiles = <<>>
  /\ existingHashes = <<>>
  /\ filesToAdd = <<>>
  /\ filesToUpdate = <<>>
  /\ filesToDelete = <<>>
  /\ parentIds = <<>>
  /\ allChildDocs = <<>>
  /\ runs = 0
  /\ parentsAtStart = {}
  /\ vectorsAtStart = {}
  /\ calls = <<>>
  /\ aborted = FALSE
  /\ previous = NoPrevious

\* empty stores, no run started
SyncIdle ==
  /\ parents = {}
  /\ lastRowid = 0
  /\ vectors = {}
  /\ RunIdle

TcInit ==
  /\ tcContent \in StringsUpTo(MaxLen) \cup LongerTexts
  /\ tcSize \in 0..MaxChunkSize
  /\ tcOverlap \in (0 - 1)..MaxChunkSize
  /\ tcPc = "call"
  /\ tcResult = Returned(<<>>)
  /\ SyncIdle
  /\ SvcIdle
  /\ RtIdle

\* one call of ParagraphSentenceChunker.chunk
ChunkCall ==
  /\ tcPc = "call"
  /\ tcResult' = chunk(tcContent, tcSize, tcOverlap)
  /\ tcPc' = IF tcResult'.ok THEN "returned" ELSE "thrown"
  /\ UNCHANGED <<tcContent, tcSize, tcOverlap, syncVars, svcVars, rtVars>>

SpecChunker == TcInit /\ [][ChunkCall]_vars

(***************************************************************************)
(* ParentChildChunkingService in use: create, then chunk, then the text    *)
(* chunker called directly on the same content.                            *)
(***************************************************************************)
\* the factors tried: zero, one half, two thirds, one, two
OverlapFactors == {<<0, 1>>, <<1, 2>>, <<2, 3>>, <<1, 1>>}
ParentFactors == {<<1, 2>>, <<1, 1>>, <<2, 1>>}

ServiceConfigs ==
  [childChunkSize : (0 - 1)..MaxChunkSize,
   childChunkOverlapFactor : OverlapFactors,
   parentChunkSizeFactor : ParentFactors]

\* texts whose parents keep whitespace at an end, and a parent with a
\* one-character child between two others
EdgeTexts ==
  { <<"a", "a", "a", ".", " ", "A">>,
    <<"a", "a", "a", " ", "a">>,
    <<"a", NL, NL, " ", "a">>,
    <<"a", "a", " ", NL, NL, "a">> }

ServiceTexts == StringsUpTo(MaxServiceLen) \cup LongerTexts \cup EdgeTexts

SvcInit ==
  /\ svcConfig \in ServiceConfigs
  /\ svcService = [ok |-> FALSE, error |-> ""]
  /\ svcContent = <<>>
  /\ svcResult = <<>>
  /\ svcPc = "new"
  /\ TcIdle
  /\ SyncIdle
  /\ RtIdle

\* ParentChildChunkingService.create(textChunker, config)
Create ==
  /\ svcPc = "new"
  /\ svcService' = create(svcConfig)
  /\ svcPc' = IF svcService'.ok THEN "created" ELSE "thrown"
  /\ UNCHANGED <<svcConfig, svcContent, svcResult, tcVars, syncVars, rtVars>>

\* service.chunk(content)
ServiceChunk ==
  /\ svcPc = "created"
  /\ \E content \in ServiceTexts :
       /\ svcContent' = content
       /\ svcResult' = serviceChunk(svcService, content)
  /\ svcPc' = "chunked"
  /\ UNCHANGED <<svcConfig, svcService, tcVars, syncVars, rtVars>>

\* textChunker.chunk(content, chunkSize, chunkOverlap) on the same content
SplitterCall(chunkSize, chunkOverlap) ==
  /\ svcPc = "chunked"
  /\ tcPc = "idle"
  /\ tcContent' = svcContent
  /\ tcSize' = chunkSize
  /\ tcOverlap' = chunkOverlap
  /\ tcResult' = chunk(svcContent, chunkSize, chunkOverlap)
  /\ tcPc' = IF tcResult'.ok THEN "returned" ELSE "thrown"
  /\ UNCHANGED <<svcVars, syncVars, rtVars>>

SvcNext ==
  \/ Create
  \/ ServiceChunk
  \/ \E chunkSize \in 0..MaxChunkSize, chunkOverlap \in (0 - 1)..MaxChunkSize :
       SplitterCall(chunkSize, chunkOverlap)

SpecService == SvcInit /\ [][SvcNext]_vars

(***************************************************************************)
(* Document sync: inputs and collaborators.                                *)
(***************************************************************************)
FileNames == {"a.txt", "b.txt"}

\* file contents: no chunk; one parent with one child; two parents, the
\* first with two children
FileContents == { <<>>, <<"a", "a">>, <<"a", "a", "a", "a", "a">> }

\* what readFiles can return: files with distinct names, listed in name order
DirectoryListings ==
  LET Files == [fileName : FileNames, content : FileContents]
      InNameOrder(f, g) == f.fileName = "a.txt" /\ g.fileName = "b.txt"
  IN  {<<>>} \cup {<<f>> : f \in Files}
      \cup {<<p[1], p[2]>> : p \in {q \in Files \X Files : InNameOrder(q[1], q[2])}}

\* computeHash: a hex digest, never empty, taken to be collision-free
computeHash(content) == <<"sha256:">> \o content

\* the opaque embedding of a child text
Embedding(text) == <<"vector:">> \o text

\* a JS Map as a sequence of <<key, value>> in insertion order
MapKeys(map) == [i \in 1..Len(map) |-> map[i][1]]
MapHas(map, key) == \E i \in 1..Len(map) : map[i][1] = key
\* Map.prototype.get; the empty string stands for undefined (both are falsy)
MapGet(map, key) ==
  IF MapHas(map, key) THEN map[CHOOSE i \in 1..Len(map) : map[i][1] = key][2] ELSE <<>>
MapSet(map, key, value) ==
  IF MapHas(map, key)
    THEN [i \in 1..Len(map) |-> IF map[i][1] = key THEN <<key, value>> ELSE map[i]]
    ELSE Append(map, <<key, value>>)
MapDelete(map, key) ==
  LET Other(entry) == entry[1] # key
  IN  SelectSeq(map, Other)

\* new Map(entries.map(e => [e.sourceFile, e.hash]))
RECURSIVE NewMap(_)
NewMap(entries) ==
  IF entries = <<>> THEN <<>>
  ELSE LET butLast == SubSeq(entries, 1, Len(entries) - 1)
           last == entries[Len(entries)]
       IN  MapSet(NewMap(butLast), last.sourceFile, last.hash)

\* !existingHash
Falsy(h) == h = <<>>

\* the rows of a set, by ascending id (the table scan's order)
RECURSIVE RowsById(_)
RowsById(rows) ==
  IF rows = {} THEN <<>>
  ELSE LET first == CHOOSE r \in rows : \A q \in rows : r.id <= q.id
       IN  <<first>> \o RowsById(rows \ {first})

(***************************************************************************)
(* SQLiteParentChunkStore.                                                 *)
(***************************************************************************)
\* mutant: no recorded hash is found
getAllSourceFileHashes_None(rows) == <<>>

\* getAllSourceFileHashes: SELECT source_file, hash WHERE parent_index = 0
getAllSourceFileHashes(rows) ==
  LET found == RowsById({r \in rows : r.parentIndex = 0})
  IN  [i \in 1..Len(found) |-> [sourceFile |-> found[i].sourceFile, hash |-> found[i].hash]]

\* UNIQUE(source_file, parent_index) would reject one of the records
insertConflicts(rows, records) ==
  \/ \E i \in 1..Len(records) : \E r \in rows :
       r.sourceFile = records[i].sourceFile /\ r.parentIndex = records[i].parentIndex
  \/ \E i, j \in 1..Len(records) :
       /\ i # j
       /\ records[i].sourceFile = records[j].sourceFile
       /\ records[i].parentIndex = records[j].parentIndex

\* insertParents: the ids lastInsertRowid gives, and the rows inserted
insertedIds(last, records) == [i \in 1..Len(records) |-> last + i]
insertedRows(last, records) ==
  {[id |-> last + i,
    sourceFile |-> records[i].sourceFile,
    parentIndex |-> records[i].parentIndex,
    content |-> records[i].content,
    hash |-> records[i].hash,
    syncedAt |-> records[i].syncedAt] : i \in 1..Len(records)}

\* deleteBySourceFile: DELETE FROM parents WHERE source_file = ?
deleteBySourceFile(rows, sourceFile) == {r \in rows : r.sourceFile # sourceFile}

(***************************************************************************)
(* VectorDBService.                                                        *)
(***************************************************************************)
\* deleteDocuments({ where: { sourceFile } })
deleteDocumentsWhere(entries, sourceFile) ==
  {e \in entries : e.metadata.sourceFile # sourceFile}

\* addDocuments (nothing is sent for an empty list)
addDocuments(entries, documents) ==
  IF Len(documents) = 0 THEN entries
  ELSE entries \cup {documents[i] : i \in 1..Len(documents)}

\* GeminiEmbeddingService.embedBatchWithTaskType rejects a blank text
embedRejects(texts) ==
  \E i \in 1..Len(texts) : Len(texts[i]) = 0 \/ Len(Trim(texts[i])) = 0

(***************************************************************************)
(* syncDocumentsCore and processFiles.                                     *)
(***************************************************************************)
\* mutant: a file whose hash changed is added, not updated
RECURSIVE classifyLoop_ChangedAsAdd(_, _, _, _)
classifyLoop_ChangedAsAdd(files, i, existingHashesMap, toAdd) ==
  IF i > Len(files)
    THEN [filesToAdd |-> toAdd, filesToUpdate |-> <<>>,
          filesToDelete |-> MapKeys(existingHashesMap)]
  ELSE LET file == files[i]
           existingHash == MapGet(existingHashesMap, file.fileName)
       IN  classifyLoop_ChangedAsAdd(files, i + 1,
             MapDelete(existingHashesMap, file.fileName),
             IF Falsy(existingHash) \/ existingHash # computeHash(file.content)
               THEN Append(toAdd, file) ELSE toAdd)

classify_ChangedAsAdd(files, hashes) ==
  classifyLoop_ChangedAsAdd(files, 1, NewMap(hashes), <<>>)

\* mutant: every recorded file is updated, its hash is not compared
RECURSIVE classifyLoop_NoHashCompare(_, _, _, _, _)
classifyLoop_NoHashCompare(files, i, existingHashesMap, toAdd, toUpdate) ==
  IF i > Len(files)
    THEN [filesToAdd |-> toAdd, filesToUpdate |-> toUpdate,
          filesToDelete |-> MapKeys(existingHashesMap)]
  ELSE LET file == files[i]
           existingHash == MapGet(existingHashesMap, file.fileName)
       IN  classifyLoop_NoHashCompare(files, i + 1,
             MapDelete(existingHashesMap, file.fileName),
             IF Falsy(existingHash) THEN Append(toAdd, file) ELSE toAdd,
             IF ~Falsy(existingHash) THEN Append(toUpdate, file) ELSE toUpdate)

classify_NoHashCompare(files, hashes) ==
  classifyLoop_NoHashCompare(files, 1, NewMap(hashes), <<>>, <<>>)

\* mutant: a seen file is not removed from existingHashesMap
RECURSIVE classifyLoop_KeepsSeen(_, _, _, _, _)
classifyLoop_KeepsSeen(files, i, existingHashesMap, toAdd, toUpdate) ==
  IF i > Len(files)
    THEN [filesToAdd |-> toAdd, filesToUpdate |-> toUpdate,
          filesToDelete |-> MapKeys(existingHashesMap)]
  ELSE LET file == files[i]
           hash == computeHash(file.content)
           existingHash == MapGet(existingHashesMap, file.fileName)
       IN  classifyLoop_KeepsSeen(files, i + 1, existingHashesMap,
             IF Falsy(existingHash) THEN Append(toAdd, file) ELSE toAdd,
             IF ~Falsy(existingHash) /\ existingHash # hash
               THEN Append(toUpdate, file) ELSE toUpdate)

classify_KeepsSeen(files, hashes) ==
  classifyLoop_KeepsSeen(files, 1, NewMap(hashes), <<>>, <<>>)

\* the classification loop over currentFiles[i..]
RECURSIVE classifyLoop(_, _, _, _, _)
classifyLoop(files, i, existingHashesMap, toAdd, toUpdate) ==
  IF i > Len(files)
    THEN [filesToAdd |-> toAdd, filesToUpdate |-> toUpdate,
          filesToDelete |-> MapKeys(existingHashesMap)]
  ELSE LET file == files[i]
           hash == computeHash(file.content)
           existingHash == MapGet(existingHashesMap, file.fileName)
       IN  classifyLoop(files, i + 1, MapDelete(existingHashesMap, file.fileName),
             IF Falsy(existingHash) THEN Append(toAdd, file) ELSE toAdd,
             IF ~Falsy(existingHash) /\ existingHash # hash
               THEN Append(toUpdate, file) ELSE toUpdate)

\* filesToAdd, filesToUpdate and filesToDelete of syncDocumentsCore
classify(files, hashes) == classifyLoop(files, 1, NewMap(hashes), <<>>, <<>>)

\* the records processFiles hands to insertParents for a file
parentRecords(file, chunks, syncedAt) ==
  [j \in 1..Len(chunks) |->
     [sourceFile |-> file.fileName,
      parentIndex |-> j - 1,
      content |-> chunks[j].text,
      hash |-> computeHash(file.content),
      syncedAt |-> syncedAt]]

\* `chunk:${file.fileName}:${parentId}:${k}`
childId(fileName, parentId, k) == <<"chunk:", fileName, ":", parentId, ":", k>>

\* mutant: the child id is built from parentIndex, not from the parent's id
childDocsOf_IdFromParentIndex(file, chunks, ids, syncedAt, j) ==
  [k \in 1..Len(chunks[j].children) |->
     [id |-> childId(file.fileName, j - 1, k - 1),
      document |-> chunks[j].children[k],
      embedding |-> <<>>,
      metadata |-> [sourceFile |-> file.fileName,
                    parentId |-> ids[j],
                    parentIndex |-> j - 1,
                    childIndex |-> k - 1,
                    hash |-> computeHash(file.content),
                    syncedAt |-> syncedAt]]]

\* the documents of parent j (1-based here, parentIndex j - 1)
childDocsOf(file, chunks, ids, syncedAt, j) ==
  [k \in 1..Len(chunks[j].children) |->
     [id |-> childId(file.fileName, ids[j], k - 1),
      document |-> chunks[j].children[k],
      embedding |-> <<>>,
      metadata |-> [sourceFile |-> file.fileName,
                    parentId |-> ids[j],
                    parentIndex |-> j - 1,
                    childIndex |-> k - 1,
                    hash |-> computeHash(file.content),
                    syncedAt |-> syncedAt]]]

\* allChildDocs of processFiles: the documents of parents j.. in order
RECURSIVE childDocsFrom(_, _, _, _, _)
childDocsFrom(file, chunks, ids, syncedAt, j) ==
  IF j > Len(chunks) THEN <<>>
  ELSE childDocsOf(file, chunks, ids, syncedAt, j)
         \o childDocsFrom(file, chunks, ids, syncedAt, j + 1)

\* documentsWithEmbeddings of processFiles
withEmbeddings(docs) ==
  [i \in 1..Len(docs) |-> [docs[i] EXCEPT !.embedding = Embedding(docs[i].document)]]

\* mutant: a file without chunks is processed like any other
nextWithChunks_NoSkip(files, from) == IF from > Len(files) THEN 0 ELSE from

\* the first index >= from of a file that produces chunks, 0 if none
\* (processFiles skips a file with no chunks)
RECURSIVE nextWithChunks(_, _)
nextWithChunks(files, from) ==
  IF from > Len(files) THEN 0
  ELSE IF Len(serviceChunk(chunkingService, files[from].content)) = 0
    THEN nextWithChunks(files, from + 1)
  ELSE from

\* where the run awaits next: [pc, phase, idx]
At(p, ph, i) == [pc |-> p, phase |-> ph, idx |-> i]

\* processFiles(files) from index `from`; toUpdate is what follows the adds
enterProcess(ph, files, from, toUpdate) ==
  LET k == nextWithChunks(files, from)
  IN  IF k # 0 THEN At("insertParents", ph, k)
      ELSE IF ph = "add" /\ Len(toUpdate) > 0 THEN At("deleteBySourceFile", "update", 1)
      ELSE At("done", "none", 0)

\* mutant: without adds, the updates are processed without their delete loop
enterAdd_SkipsUpdateDeletes(toAdd, toUpdate) ==
  IF Len(toAdd) > 0 THEN enterProcess("add", toAdd, 1, toUpdate)
  ELSE IF Len(toUpdate) > 0 THEN enterProcess("update", toUpdate, 1, toUpdate)
  ELSE At("done", "none", 0)

\* if (filesToAdd.length > 0) ... if (filesToUpdate.length > 0) ...
enterAdd(toAdd, toUpdate) ==
  IF Len(toAdd) > 0 THEN enterProcess("add", toAdd, 1, toUpdate)
  ELSE IF Len(toUpdate) > 0 THEN At("deleteBySourceFile", "update", 1)
  ELSE At("done", "none", 0)

\* if (filesToDelete.length > 0) ...
enterDelete(toDelete, toAdd, toUpdate) ==
  IF Len(toDelete) > 0 THEN At("deleteBySourceFile", "delete", 1)
  ELSE enterAdd(toAdd, toUpdate)

\* after the deleteDocuments of entry idx of the delete or update loop
afterDelete(ph, i, toDelete, toAdd, toUpdate) ==
  IF ph = "delete"
    THEN IF i < Len(toDelete) THEN At("deleteBySourceFile", "delete", i + 1)
         ELSE enterAdd(toAdd, toUpdate)
    ELSE IF i < Len(toUpdate) THEN At("deleteBySourceFile", "update", i + 1)
         ELSE enterProcess("update", toUpdate, 1, toUpdate)

\* the list processFiles is working through
ProcessedList == IF phase = "add" THEN filesToAdd ELSE filesToUpdate

\* the source file the pending call is about ("" when about none)
PendingFile ==
  IF pc \in {"deleteBySourceFile", "deleteDocuments"}
    THEN IF phase = "delete" THEN filesToDelete[idx] ELSE filesToUpdate[idx].fileName
  ELSE IF pc \in {"insertParents", "embedBatchRetrievalDocument", "addDocuments"}
    THEN ProcessedList[idx].fileName
  ELSE ""

PendingCall == [op |-> pc, file |-> PendingFile]

AwaitPoints ==
  {"vectorDB.reset", "parentStore.deleteAll", "readFiles", "getAllSourceFileHashes",
   "deleteBySourceFile", "deleteDocuments", "insertParents",
   "embedBatchRetrievalDocument", "addDocuments"}

Goto(at) ==
  /\ pc' = at.pc
  /\ phase' = at.phase
  /\ idx' = at.idx

Called == calls' = Append(calls, PendingCall)

\* mutant: the reset flag is ignored
firstAwait_IgnoresReset(r) == "readFiles"

\* if (reset) { await deps.vectorDB.reset(); ... } ... await deps.readFiles(...)
firstAwait(r) == IF r THEN "vectorDB.reset" ELSE "readFiles"

\* syncDocumentsCore(deps, config, r) is called
StartRun(r) ==
  /\ pc \in {"idle", "done", "failed"}
  /\ runs < MaxRuns
  /\ runs' = runs + 1
  /\ reset' = r
  /\ parentsAtStart' = parents
  /\ vectorsAtStart' = vectors
  /\ previous' = [files |-> currentFiles, outcome |-> pc, sameFiles |-> FALSE]
  /\ calls' = <<>>
  /\ Goto(At(firstAwait(r), "none", 0))
  /\ currentFiles' = <<>>
  /\ existingHashes' = <<>>
  /\ filesToAdd' = <<>>
  /\ filesToUpdate' = <<>>
  /\ filesToDelete' = <<>>
  /\ parentIds' = <<>>
  /\ allChildDocs' = <<>>
  /\ UNCHANGED <<storeVars, aborted, nonSyncVars>>

\* await deps.vectorDB.reset()
VectorReset ==
  /\ pc = "vectorDB.reset"
  /\ vectors' = {}
  /\ Called
  /\ Goto(At("parentStore.deleteAll", "none", 0))
  /\ UNCHANGED <<parents, lastRowid, reset, currentFiles, existingHashes, filesToAdd,
                 filesToUpdate, filesToDelete, parentIds, allChildDocs,
                 runs, parentsAtStart, vectorsAtStart, previous, aborted, nonSyncVars>>

\* await deps.parentStore.deleteAll()
ParentDeleteAll ==
  /\ pc = "parentStore.deleteAll"
  /\ parents' = {}
  /\ Called
  /\ Goto(At("readFiles", "none", 0))
  /\ UNCHANGED <<lastRowid, vectors, reset, currentFiles, existingHashes, filesToAdd,
                 filesToUpdate, filesToDelete, parentIds, allChildDocs,
                 runs, parentsAtStart, vectorsAtStart, previous, aborted, nonSyncVars>>

\* const currentFiles = await deps.readFiles(config.documentsDir)
ReadFiles(files) ==
  /\ pc = "readFiles"
  /\ currentFiles' = files
  /\ previous' = IF previous.outcome # "idle" /\ files = previous.files
                   THEN [previous EXCEPT !.files = <<>>, !.sameFiles = TRUE]
                   ELSE NoPrevious
  /\ Called
  /\ Goto(At("getAllSourceFileHashes", "none", 0))
  /\ UNCHANGED <<storeVars, reset, existingHashes, filesToAdd,
                 filesToUpdate, filesToDelete, parentIds, allChildDocs,
                 runs, parentsAtStart, vectorsAtStart, aborted, nonSyncVars>>

\* await deps.parentStore.getAllSourceFileHashes(), then the classification
GetHashesAndClassify ==
  /\ pc = "getAllSourceFileHashes"
  /\ LET hashes == getAllSourceFileHashes(parents)
         c == classify(currentFiles, hashes)
     IN  /\ existingHashes' = hashes
         /\ filesToAdd' = c.filesToAdd
         /\ filesToUpdate' = c.filesToUpdate
         /\ filesToDelete' = c.filesToDelete
         /\ Goto(enterDelete(c.filesToDelete, c.filesToAdd, c.filesToUpdate))
  /\ Called
  /\ UNCHANGED <<storeVars, reset, currentFiles, parentIds, allChildDocs,
                 runs, parentsAtStart, vectorsAtStart, previous, aborted, nonSyncVars>>

\* await deps.parentStore.deleteBySourceFile(...) of the delete and update loops
DeleteBySourceFile ==
  /\ pc = "deleteBySourceFile"
  /\ parents' = deleteBySourceFile(parents, PendingFile)
  /\ Called
  /\ Goto(At("deleteDocuments", phase, idx))
  /\ UNCHANGED <<lastRowid, vectors, reset, currentFiles, existingHashes, filesToAdd,
                 filesToUpdate, filesToDelete, parentIds, allChildDocs,
                 runs, parentsAtStart, vectorsAtStart, previous, aborted, nonSyncVars>>

\* await deps.vectorDB.deleteDocuments({ where: { sourceFile } })
DeleteDocuments ==
  /\ pc = "deleteDocuments"
  /\ vectors' = deleteDocumentsWhere(vectors, PendingFile)
  /\ Called
  /\ Goto(afterDelete(phase, idx, filesToDelete, filesToAdd, filesToUpdate))
  /\ UNCHANGED <<parents, lastRowid, reset, currentFiles, existingHashes, filesToAdd,
                 filesToUpdate, filesToDelete, parentIds, allChildDocs,
                 runs, parentsAtStart, vectorsAtStart, previous, aborted, nonSyncVars>>

\* const parentIds = await deps.parentStore.insertParents(parentRecords), then
\* the loops that build allChildDocs; a UNIQUE violation throws
InsertParents ==
  /\ pc = "insertParents"
  /\ LET file == ProcessedList[idx]
         chunks == serviceChunk(chunkingService, file.content)
         records == parentRecords(file, chunks, runs)
         ids == insertedIds(lastRowid, records)
     IN  IF insertConflicts(parents, records)
           THEN /\ Goto(At("failed", "none", 0))
                /\ aborted' = TRUE
                /\ UNCHANGED <<parents, lastRowid, parentIds, allChildDocs>>
           ELSE /\ parents' = parents \cup insertedRows(lastRowid, records)
                /\ lastRowid' = lastRowid + Len(records)
                /\ parentIds' = ids
                /\ allChildDocs' = childDocsFrom(file, chunks, ids, runs, 1)
                /\ Goto(At("embedBatchRetrievalDocument", phase, idx))
                /\ UNCHANGED aborted
  /\ Called
  /\ UNCHANGED <<vectors, reset, currentFiles, existingHashes, filesToAdd,
                 filesToUpdate, filesToDelete,
                 runs, parentsAtStart, vectorsAtStart, previous, nonSyncVars>>

\* await deps.embeddingService.embedBatchRetrievalDocument(childTexts)
EmbedBatch ==
  /\ pc = "embedBatchRetrievalDocument"
  /\ IF embedRejects([i \in 1..Len(allChildDocs) |-> allChildDocs[i].document])
       THEN /\ Goto(At("failed", "none", 0))
            /\ aborted' = TRUE
            /\ UNCHANGED allChildDocs
       ELSE /\ allChildDocs' = withEmbeddings(allChildDocs)
            /\ Goto(At("addDocuments", phase, idx))
            /\ UNCHANGED aborted
  /\ Called
  /\ UNCHANGED <<storeVars, reset, currentFiles, existingHashes, filesToAdd,
                 filesToUpdate, filesToDelete, parentIds,
                 runs, parentsAtStart, vectorsAtStart, previous, nonSyncVars>>

\* await deps.vectorDB.addDocuments(documentsWithEmbeddings), then on to the
\* next file of processFiles
AddDocuments ==
  /\ pc = "addDocuments"
  /\ vectors' = addDocuments(vectors, allChildDocs)
  /\ Called
  /\ Goto(enterProcess(phase, ProcessedList, idx + 1, filesToUpdate))
  /\ UNCHANGED <<parents, lastRowid, reset, currentFiles, existingHashes, filesToAdd,
                 filesToUpdate, filesToDelete, parentIds, allChildDocs,
                 runs, parentsAtStart, vectorsAtStart, previous, aborted, nonSyncVars>>

\* the awaited collaborator call rejects: the error leaves syncDocumentsCore.
\* The call had no effect, except that ChromaVectorDBService.reset may have
\* deleted the collection before it failed to recreate it.
CollaboratorFails ==
  /\ pc \in AwaitPoints
  /\ Called
  /\ Goto(At("failed", "none", 0))
  /\ aborted' = TRUE
  /\ IF pc = "vectorDB.reset" THEN vectors' \in {vectors, {}} ELSE UNCHANGED vectors
  /\ UNCHANGED <<parents, lastRowid, reset, currentFiles, existingHashes, filesToAdd,
                 filesToUpdate, filesToDelete, parentIds, allChildDocs,
                 runs, parentsAtStart, vectorsAtStart, previous, nonSyncVars>>

SyncInit == SyncIdle /\ TcIdle /\ SvcIdle /\ RtIdle

SyncNext ==
  \/ \E r \in BOOLEAN : StartRun(r)
  \/ VectorReset
  \/ ParentDeleteAll
  \/ \E files \in DirectoryListings : ReadFiles(files)
  \/ GetHashesAndClassify
  \/ DeleteBySourceFile
  \/ DeleteDocuments
  \/ InsertParents
  \/ EmbedBatch
  \/ AddDocuments
  \/ CollaboratorFails

SpecSync == SyncInit /\ [][SyncNext]_vars

(***************************************************************************)
(* Retrieval: MyCustomRetrieverService.retrieve, alone or called by        *)
(* MyCustomGeneratorService.generate.  A similarity is in thousandths.     *)
(* The vector store answers a query with any sequence of at most nResults  *)
(* matches; the parent store holds any of three rows.                      *)
(***************************************************************************)
Similarities == {796, 854}
MatchedParentIds == {1, 2, 3}

\* QueryMatch, reduced to what retrieve reads
QueryMatches == [metadata : [parentId : MatchedParentIds], similarity : Similarities]

\* the answers vectorDB.query may give: at most MaxMatches (nResults) matches
QueryAnswers == UNION {[1..n -> QueryMatches] : n \in 0..MaxMatches}

\* the rows the parent store may hold when the question is asked
RetrievableRows ==
  { [id |-> 1, sourceFile |-> "a.txt", parentIndex |-> 0, content |-> <<"a", "a">>,
     hash |-> computeHash(<<"a", "a", "a">>), syncedAt |-> 1],
    [id |-> 2, sourceFile |-> "a.txt", parentIndex |-> 1, content |-> <<"a">>,
     hash |-> computeHash(<<"a", "a", "a">>), syncedAt |-> 1],
    [id |-> 3, sourceFile |-> "b.txt", parentIndex |-> 0, content |-> <<"A">>,
     hash |-> computeHash(<<"A">>), syncedAt |-> 1] }

Questions == {<<>>, <<" ">>, <<NL, " ">>, <<"a">>, <<" ", "a">>}

NO_RESULTS_MESSAGE == "I could not find any relevant information in the cookbook to answer your question."

\* mutant: no question is rejected
questionRejected_Never(question) == FALSE

\* retrieve: !question || question.trim() === ''
questionRejected(question) == question = <<>> \/ Trim(question) = <<>>

\* parentBestSimilarity.get(id) ?? 0
BestOrZero(best, id) ==
  IF MapHas(best, id) THEN best[CHOOSE i \in 1..Len(best) : best[i][1] = id][2] ELSE 0

\* mutant: the last child seen decides a parent's similarity
RECURSIVE parentBestSimilarity_LastWins(_)
parentBestSimilarity_LastWins(childMatches) ==
  IF childMatches = <<>> THEN <<>>
  ELSE LET child == childMatches[Len(childMatches)]
       IN  MapSet(parentBestSimilarity_LastWins(SubSeq(childMatches, 1, Len(childMatches) - 1)),
                  child.metadata.parentId, child.similarity)

\* retrieve: the loop that fills parentBestSimilarity
RECURSIVE parentBestSimilarity(_)
parentBestSimilarity(childMatches) ==
  IF childMatches = <<>> THEN <<>>
  ELSE LET child == childMatches[Len(childMatches)]
           parentId == child.metadata.parentId
           best == parentBestSimilarity(SubSeq(childMatches, 1, Len(childMatches) - 1))
       IN  IF ~MapHas(best, parentId) \/ child.similarity > BestOrZero(best, parentId)
             THEN MapSet(best, parentId, child.similarity)
             ELSE best

\* getParents: the rows whose id is among ids, in any order
getParents(rows, ids) ==
  LET found == {r \in rows : \E i \in 1..Len(ids) : ids[i] = r.id}
  IN  IF Len(ids) = 0 THEN {<<>>}
      ELSE {order \in [1..Cardinality(found) -> found] :
              \A i, j \in 1..Cardinality(found) : order[i] = order[j] => i = j}

\* mutant: the rows are left in the order the store returned them
sortBySimilarity_Unsorted(rows, best) == rows

\* parents.sort((a, b) => simB - simA): stable, descending
RECURSIVE sortBySimilarity(_, _)
sortBySimilarity(rows, best) ==
  IF rows = <<>> THEN <<>>
  ELSE LET sorted == sortBySimilarity(SubSeq(rows, 1, Len(rows) - 1), best)
           row == rows[Len(rows)]
           ahead == {i \in 1..Len(sorted) :
                       BestOrZero(best, sorted[i].id) >= BestOrZero(best, row.id)}
           n == Cardinality(ahead)
       IN  SubSeq(sorted, 1, n) \o <<row>> \o SubSeq(sorted, n + 1, Len(sorted))

\* retrieve: the entries for the rows getParents returned
entriesFor(rows, best) ==
  IF Len(rows) = 0 THEN <<>>
  ELSE LET sorted == sortBySimilarity(rows, best)
       IN  [i \in 1..Len(sorted) |->
              [sourceFile |-> sorted[i].sourceFile,
               content |-> sorted[i].content,
               similarity |-> BestOrZero(best, sorted[i].id)]]

\* mutant: the parent store is asked even when nothing matched
afterQuery_AlwaysGetParents(childMatches) == "getParents"

\* retrieve: if (childMatches.length === 0) return { entries: [] }
afterQuery(childMatches) == IF Len(childMatches) = 0 THEN "returned" ELSE "getParents"

\* the collaborator call op(arg) is made and resolves / rejects
RtCalled(op, arg) ==
  rtCalls' = Append(rtCalls, [op |-> op, arg |-> arg, outcome |-> "resolved"])
RtRejected(op) ==
  rtCalls' = Append(rtCalls, [op |-> op, arg |-> <<>>, outcome |-> "rejected"])

\* Number.prototype.toFixed(2): thousandths rounded to hundredths
toFixed2(similarity) == (similarity + 5) \div 10

\* mutant: the blocks are numbered from 0
contextParts_NumberedFromZero(entries) ==
  [i \in 1..Len(entries) |->
     <<"[Document ", i - 1, "] Source: ", entries[i].sourceFile, " (Best match: ",
       toFixed2(entries[i].similarity), ")", NL, entries[i].content>>]

\* generate: one block per entry, in the order of the entries
contextParts(entries) ==
  [i \in 1..Len(entries) |->
     <<"[Document ", i, "] Source: ", entries[i].sourceFile, " (Best match: ",
       toFixed2(entries[i].similarity), ")", NL, entries[i].content>>]

\* Array.prototype.join
RECURSIVE join(_, _)
join(parts, separator) ==
  IF parts = <<>> THEN <<>>
  ELSE IF Len(parts) = 1 THEN parts[1]
  ELSE parts[1] \o separator \o join(Tail(parts), separator)

\* buildPrompt(question, context): the template around context and question
buildPrompt(question, context) ==
  <<"You are a helpful cooking assistant [...] Context from user's cookbook:", NL>>
    \o context
    \o <<NL, NL, "User question: ", question, NL, NL, "Instructions: [...] Answer:">>

\* generate: the prompt for the entries retrieve returned
promptFor(question, entries) ==
  buildPrompt(question, join(contextParts(entries), <<NL, NL>>))

\* the responses the completion function may give
Completions == {"Answer", ""}

\* mutant: the completion function is asked even without entries
generateNext_AlwaysAsk(entries) == "ask"

\* generate: if (entries.length === 0) return NO_RESULTS_MESSAGE
generateNext(entries) == IF Len(entries) = 0 THEN "returned" ELSE "ask"

\* mutant: a rejected completion call is made again
onRejected_AskAgain(op) == IF op = "ask" THEN "ask" ELSE "failed"

\* no try / catch around any await: the rejection is the call's outcome
onRejected(op) == "failed"

\* retrieve returns entries: to the caller, or into generate
RetrieveReturns(entries) ==
  IF rtMode = "retrieve"
    THEN /\ rtPc' = "returned"
         /\ rtResult' = [NoOutcome EXCEPT !.kind = "entries", !.entries = entries]
  ELSE IF generateNext(entries) = "returned"
    THEN /\ rtPc' = "returned"
         /\ rtResult' = [NoOutcome EXCEPT !.kind = "answer", !.answer = NO_RESULTS_MESSAGE]
  ELSE /\ rtPc' = "ask"
       /\ rtResult' = [NoOutcome EXCEPT !.entries = entries]

\* retrieve(question) or generate(question) is called: the validation
StartQuestion(question, mode) ==
  /\ rtPc = "idle"
  /\ rtQuestion' = question
  /\ rtMode' = mode
  /\ IF questionRejected(question)
       THEN /\ rtPc' = "failed"
            /\ rtResult' = [NoOutcome EXCEPT !.kind = "error",
                               !.error = "question is required and cannot be empty"]
       ELSE /\ rtPc' = "embedRetrievalQuery"
            /\ UNCHANGED rtResult
  /\ UNCHANGED <<rtMatches, rtBest, rtRows, rtCalls, inFlight, tcVars, svcVars, syncVars>>

\* await embeddingService.embedRetrievalQuery(question)
EmbedRetrievalQuery ==
  /\ rtPc = "embedRetrievalQuery"
  /\ RtCalled("embedRetrievalQuery", rtQuestion)
  /\ rtPc' = "vectorDB.query"
  /\ UNCHANGED <<rtQuestion, rtMode, rtMatches, rtBest, rtRows, rtResult, inFlight,
                 tcVars, svcVars, syncVars>>

\* await vectorDB.query(...), the grouping by parent
VectorQuery ==
  /\ rtPc = "vectorDB.query"
  /\ RtCalled("vectorDB.query", MaxMatches)
  /\ \E childMatches \in QueryAnswers :
       /\ rtMatches' = childMatches
       /\ IF afterQuery(childMatches) = "returned"
            THEN /\ RetrieveReturns(<<>>)
                 /\ UNCHANGED rtBest
            ELSE /\ rtBest' = parentBestSimilarity(childMatches)
                 /\ rtPc' = "getParents"
                 /\ UNCHANGED rtResult
  /\ UNCHANGED <<rtQuestion, rtMode, rtRows, inFlight, tcVars, svcVars, syncVars>>

\* await parentChunkStore.getParents(parentIds), the sort and the entries
GetParents ==
  /\ rtPc = "getParents"
  /\ RtCalled("getParents", MapKeys(rtBest))
  /\ \E rows \in getParents(parents, MapKeys(rtBest)) :
       /\ rtRows' = rows
       /\ RetrieveReturns(entriesFor(rows, rtBest))
  /\ UNCHANGED <<rtQuestion, rtMode, rtMatches, rtBest, inFlight, tcVars, svcVars, syncVars>>

\* generate: return askingService.ask(prompt)
AskCompletion ==
  /\ rtPc = "ask"
  /\ rtPc' = "returned"
  /\ \E response \in Completions :
       /\ rtCalls' = Append(rtCalls, [op |-> "ask",
                                     arg |-> promptFor(rtQuestion, rtResult.entries),
                                     outcome |-> "resolved", response |-> response])
       /\ rtResult' = [rtResult EXCEPT !.kind = "answer", !.answer = response]
  /\ UNCHANGED <<rtQuestion, rtMode, rtMatches, rtBest, rtRows, inFlight,
                 tcVars, svcVars, syncVars>>

\* an awaited collaborator call rejects: retrieve / generate rejects with it
RtCollaboratorFails ==
  /\ rtPc \in {"embedRetrievalQuery", "vectorDB.query", "getParents", "ask"}
  /\ RtRejected(rtPc)
  /\ rtPc' = onRejected(rtPc)
  /\ IF onRejected(rtPc) = "failed"
       THEN rtResult' = [NoOutcome EXCEPT !.kind = "error", !.error = rtPc]
       ELSE UNCHANGED rtResult
  /\ UNCHANGED <<rtQuestion, rtMode, rtMatches, rtBest, rtRows, inFlight,
                 tcVars, svcVars, syncVars>>

RtInit ==
  /\ parents \in SUBSET RetrievableRows
  /\ lastRowid = Cardinality(RetrievableRows)
  /\ vectors = {}
  /\ RunIdle
  /\ TcIdle
  /\ SvcIdle
  /\ RtIdle

RtNext ==
  \/ \E question \in Questions, mode \in {"retrieve", "generate"} :
       StartQuestion(question, mode)
  \/ EmbedRetrievalQuery
  \/ VectorQuery
  \/ GetParents
  \/ AskCompletion
  \/ RtCollaboratorFails

SpecRetrieve == RtInit /\ [][RtNext]_vars

(***************************************************************************)
(* Two calls of retrieve / generate in flight on one service instance.     *)
(* Each call keeps its position and its locals; the calls interleave at    *)
(* their awaits.                                                           *)
(***************************************************************************)
\* the answers of vectorDB.query to a call in flight: none, one match, or
\* two matches of different parents
InFlightAnswers ==
  {<<>>} \cup {<<m>> : m \in QueryMatches}
         \cup {<<m, n>> : m \in {x \in QueryMatches : x.metadata.parentId = 1},
                          n \in {x \in QueryMatches : x.metadata.parentId = 3}}

\* the questions of calls in flight
InFlightQuestions == {<<" ">>, <<"a">>, <<" ", "a">>}

\* the awaits of a call
CallAwaits == {"embedRetrievalQuery", "vectorDB.query", "getParents", "ask"}

\* call c is between its start and its return
InFlightNow(c) == inFlight[c].pc \in CallAwaits

\* call c resumes after an await: the other calls may be in flight
Resumed(c, call) ==
  [inFlight EXCEPT ![c] = [call EXCEPT !.overlapped =
     inFlight[c].overlapped \/ \E d \in CallIds \ {c} : InFlightNow(d)]]

\* mutant: the map is a field of the service, filled by every call
bestOfCall_SharedMap(c, childMatches) ==
  LET others == CHOOSE d \in CallIds : d # c
  IN  parentBestSimilarity(inFlight[others].matches \o childMatches)

\* retrieve: const parentBestSimilarity = new Map(), local to the call
bestOfCall(c, childMatches) == parentBestSimilarity(childMatches)

\* retrieve returns entries in call c: to the caller, or into generate
CallRetrieveReturns(call, entries) ==
  IF call.mode = "retrieve"
    THEN [call EXCEPT !.pc = "returned",
                      !.result = [NoOutcome EXCEPT !.kind = "entries", !.entries = entries]]
  ELSE IF generateNext(entries) = "returned"
    THEN [call EXCEPT !.pc = "returned",
                      !.result = [NoOutcome EXCEPT !.kind = "answer",
                                                   !.answer = NO_RESULTS_MESSAGE]]
  ELSE [call EXCEPT !.pc = "ask", !.result = [NoOutcome EXCEPT !.entries = entries]]

InFlightUnchanged == UNCHANGED <<rtCallVars, tcVars, svcVars, syncVars>>

\* call c of retrieve(question) or generate(question) starts
CallStart(c, question, mode) ==
  /\ inFlight[c].pc = "idle"
  /\ inFlight' = [inFlight EXCEPT ![c] =
       IF questionRejected(question)
         THEN [IdleCall EXCEPT !.question = question, !.mode = mode, !.pc = "failed",
                 !.result = [NoOutcome EXCEPT !.kind = "error",
                               !.error = "question is required and cannot be empty"]]
         ELSE [IdleCall EXCEPT !.question = question, !.mode = mode,
                 !.pc = "embedRetrievalQuery"]]
  /\ InFlightUnchanged

\* call c: await embeddingService.embedRetrievalQuery(question)
CallEmbed(c) ==
  /\ inFlight[c].pc = "embedRetrievalQuery"
  /\ inFlight' = Resumed(c, [inFlight[c] EXCEPT !.pc = "vectorDB.query"])
  /\ InFlightUnchanged

\* call c: await vectorDB.query(...), the grouping by parent
CallQuery(c) ==
  /\ inFlight[c].pc = "vectorDB.query"
  /\ \E childMatches \in InFlightAnswers :
       LET call == [inFlight[c] EXCEPT !.matches = childMatches]
       IN  inFlight' = Resumed(c,
             IF afterQuery(childMatches) = "returned"
               THEN CallRetrieveReturns(call, <<>>)
               ELSE [call EXCEPT !.best = bestOfCall(c, childMatches),
                                 !.pc = "getParents"])
  /\ InFlightUnchanged

\* call c: await parentChunkStore.getParents(parentIds), sort, entries
CallGetParents(c) ==
  /\ inFlight[c].pc = "getParents"
  /\ \E rows \in getParents(parents, MapKeys(inFlight[c].best)) :
       inFlight' = Resumed(c,
         CallRetrieveReturns([inFlight[c] EXCEPT !.rows = rows],
                             entriesFor(rows, inFlight[c].best)))
  /\ InFlightUnchanged

\* call c of generate: return askingService.ask(prompt)
CallAsk(c) ==
  /\ inFlight[c].pc = "ask"
  /\ \E response \in Completions :
       inFlight' = Resumed(c,
         [inFlight[c] EXCEPT !.pc = "returned", !.response = response,
                             !.result = [@ EXCEPT !.kind = "answer", !.answer = response]])
  /\ InFlightUnchanged

\* call c: the awaited collaborator call rejects
CallFails(c) ==
  /\ InFlightNow(c)
  /\ onRejected(inFlight[c].pc) = "failed"
  /\ inFlight' = Resumed(c,
       [inFlight[c] EXCEPT !.pc = "failed",
                           !.result = [NoOutcome EXCEPT !.kind = "error",
                                                        !.error = inFlight[c].pc]])
  /\ InFlightUnchanged

InFlightInit ==
  /\ parents \in {RetrievableRows, {r \in RetrievableRows : r.id # 3}}
  /\ lastRowid = Cardinality(RetrievableRows)
  /\ vectors = {}
  /\ RunIdle
  /\ TcIdle
  /\ SvcIdle
  /\ RtIdle

InFlightNext ==
  \E c \in CallIds :
    \/ \E question \in InFlightQuestions, mode \in {"retrieve", "generate"} :
         CallStart(c, question, mode)
    \/ CallEmbed(c)
    \/ CallQuery(c)
    \/ CallGetParents(c)
    \/ CallAsk(c)
    \/ CallFails(c)

SpecInFlight == InFlightInit /\ [][InFlightNext]_vars

(***************************************************************************)
(* Text chunker: properties.                                               *)
(***************************************************************************)
RECURSIVE Concat(_)
Concat(chunks) == IF chunks = <<>> THEN <<>> ELSE Head(chunks) \o Concat(Tail(chunks))

NotWhitespace(c) == c \notin Whitespace
WithoutWhitespace(s) == SelectSeq(s, NotWhitespace)

TcTrimmed == Trim(tcContent)

\* the chunks of the call before any overlap was prepended
TcPreOverlap ==
  IF Len(TcTrimmed) <= tcSize THEN tcResult.chunks ELSE preOverlapChunks(TcTrimmed, tcSize)

\* chunk 0 whole, every later chunk i without its first
\* min(chunkOverlap, length of pre-overlap chunk i-1) characters
TcOverlapStripped ==
  [i \in 1..Len(tcResult.chunks) |->
     IF i = 1 THEN tcResult.chunks[i]
     ELSE SubSeq(tcResult.chunks[i],
                 Min(tcOverlap, Len(TcPreOverlap[i - 1])) + 1,
                 Len(tcResult.chunks[i]))]

TcReconstructed == Concat(TcOverlapStripped)

\* the trimmed input has a blank-line separator or a sentence boundary
TcHasBoundary ==
  \/ Len(SplitParagraphs(TcTrimmed)) > 1
  \/ Len(SplitSentences(TcTrimmed)) > 1

\* C9 as stated: for every input and accepted sizes, the chunks with the
\* overlap prefixes removed concatenate to exactly the trimmed input.
C9_ExactReconstruction ==
  tcPc = "returned" => TcReconstructed = TcTrimmed

\* C9 amended: the chunks with the overlap prefixes removed concatenate to
\* the trimmed input up to whitespace (only whitespace is lost), and to
\* exactly the trimmed input when it has no blank-line separator and no
\* sentence boundary.
C9_ReconstructionUpToWhitespace ==
  tcPc = "returned" =>
    /\ Len(tcResult.chunks) = Len(TcPreOverlap)
    /\ WithoutWhitespace(TcReconstructed) = WithoutWhitespace(TcTrimmed)
    /\ ~TcHasBoundary => TcReconstructed = TcTrimmed

\* C9 witness: a call returned three or more chunks with overlap prepended,
\* and the reconstruction lost a separator.
C9_Witness ==
  /\ tcPc = "returned"
  /\ tcOverlap > 0
  /\ Len(tcResult.chunks) > 2
  /\ TcReconstructed # TcTrimmed

\* C10: the first chunk is at most chunkSize long and every later chunk at
\* most chunkSize + chunkOverlap.
C10_SizeBound ==
  tcPc = "returned" =>
    \A i \in 1..Len(tcResult.chunks) :
      Len(tcResult.chunks[i]) <= (IF i = 1 THEN tcSize ELSE tcSize + tcOverlap)

\* C10 witness: a later chunk that reaches chunkSize + chunkOverlap, with
\* chunkOverlap > 0.
C10_Witness ==
  /\ tcPc = "returned"
  /\ tcOverlap > 0
  /\ \E i \in 2..Len(tcResult.chunks) : Len(tcResult.chunks[i]) = tcSize + tcOverlap

\* the last n characters of s (none for n = 0)
LastChars(s, n) == SubSeq(s, Len(s) - n + 1, Len(s))

\* C11: when more than one chunk is returned, chunk 0 is pre-overlap chunk 0
\* and every later chunk i is the last min(chunkOverlap, length of
\* pre-overlap chunk i-1) characters of pre-overlap chunk i-1 followed by
\* pre-overlap chunk i.
C11_OverlapConstruction ==
  (tcPc = "returned" /\ Len(tcResult.chunks) > 1) =>
    /\ Len(tcResult.chunks) = Len(TcPreOverlap)
    /\ tcResult.chunks[1] = TcPreOverlap[1]
    /\ \A i \in 2..Len(tcResult.chunks) :
         tcResult.chunks[i] =
           LastChars(TcPreOverlap[i - 1], Min(tcOverlap, Len(TcPreOverlap[i - 1])))
             \o TcPreOverlap[i]

\* C11 witness: a chunk follows a pre-overlap chunk that is shorter than the
\* overlap, and another follows one that is longer.
C11_Witness ==
  /\ tcPc = "returned"
  /\ tcOverlap > 0
  /\ \E i \in 2..Len(tcResult.chunks) : Len(TcPreOverlap[i - 1]) < tcOverlap
  /\ \E i \in 2..Len(tcResult.chunks) : Len(TcPreOverlap[i - 1]) > tcOverlap

\* the sizes violate 0 < chunkOverlap < chunkSize, or chunkSize <= 0
TcSizesOutsideStatedContract == ~(0 < tcOverlap /\ tcOverlap < tcSize) \/ tcSize <= 0

\* the sizes the code rejects
TcSizesRejected == tcSize <= 0 \/ tcOverlap < 0 \/ tcOverlap >= tcSize

\* C12 as stated: every call whose sizes violate 0 < chunkOverlap < chunkSize
\* or chunkSize > 0 throws, whatever the text.
C12_ThrowsOutsideStatedContract ==
  (tcPc # "call" /\ tcPc # "idle" /\ TcSizesOutsideStatedContract) => tcPc = "thrown"

\* C12 amended: a call throws, returning no chunks, exactly when
\* chunkSize <= 0, chunkOverlap < 0 or chunkOverlap >= chunkSize, whatever
\* the text; chunkOverlap = 0 with chunkSize > 0 is accepted.
C12_ThrowsIffSizesRejected ==
  (tcPc # "call" /\ tcPc # "idle") =>
    /\ tcPc = "thrown" <=> TcSizesRejected
    /\ tcPc = "thrown" => (~tcResult.ok /\ tcResult.chunks = <<>> /\ tcResult.error # "")
    /\ tcPc = "returned" => tcResult.ok

\* C12 witness: a call with empty text and chunkOverlap = chunkSize > 0 threw.
C12_Witness ==
  /\ tcPc = "thrown"
  /\ tcContent = <<>>
  /\ tcSize > 0
  /\ tcOverlap = tcSize

\* C13 as stated: every input shorter than chunkSize comes back as exactly
\* one chunk, the trimmed input.
C13_ShortInputOneChunk ==
  (tcPc = "returned" /\ Len(tcContent) < tcSize) => tcResult.chunks = <<TcTrimmed>>

\* C13 amended: every input that is not blank and whose trimmed form is at
\* most chunkSize long (so every non-blank input shorter than chunkSize)
\* comes back as exactly one chunk, the trimmed input.
C13_ShortNonBlankInputOneChunk ==
  (tcPc = "returned" /\ TcTrimmed # <<>> /\ Len(TcTrimmed) <= tcSize) =>
    tcResult.chunks = <<TcTrimmed>>

\* C13 witness: an input shorter than chunkSize with whitespace around its
\* text was returned.
C13_Witness ==
  /\ tcPc = "returned"
  /\ Len(tcContent) < tcSize
  /\ TcTrimmed # <<>>
  /\ TcTrimmed # tcContent

(***************************************************************************)
(* Document sync: properties.                                              *)
(***************************************************************************)
RowsOf(rows, f) == {r \in rows : r.sourceFile = f}
EntriesOf(entries, f) == {e \in entries : e.metadata.sourceFile = f}

\* positions of the run's calls of op that concern file f
CallsAbout(op, f) == {p \in 1..Len(calls) : calls[p].op = op /\ calls[p].file = f}

MutatingCalls == {"insertParents", "addDocuments", "deleteBySourceFile", "deleteDocuments"}

\* the run was aborted, and by the call it made last
RunAborted == pc = "failed"

\* the run has read the recorded hashes and classified the current files
Classified ==
  \E p \in 1..Len(calls) :
    /\ calls[p].op = "getAllSourceFileHashes"
    /\ ~(RunAborted /\ p = Len(calls))

CurrentNames == {currentFiles[i].fileName : i \in 1..Len(currentFiles)}
RecordedNames == {existingHashes[i].sourceFile : i \in 1..Len(existingHashes)}
RecordedHash(f) ==
  (CHOOSE i \in 1..Len(existingHashes) : existingHashes[i].sourceFile = f)

\* a current file whose recorded hash differs from / equals its current hash
Changed(file) ==
  /\ file.fileName \in RecordedNames
  /\ existingHashes[RecordedHash(file.fileName)].hash # computeHash(file.content)
Unchanged(file) ==
  /\ file.fileName \in RecordedNames
  /\ existingHashes[RecordedHash(file.fileName)].hash = computeHash(file.content)

InList(list, file) == \E i \in 1..Len(list) : list[i] = file
Occurrences(list, x) == Cardinality({i \in 1..Len(list) : list[i] = x})

\* the files processFiles has to work through in this run, in order
ToProcess == filesToAdd \o filesToUpdate

\* the position in ToProcess of the file the failing call was about
\* (0 when that call was about no file processFiles has to work through)
FailedAt ==
  LET f == calls[Len(calls)].file
  IN  IF \E i \in 1..Len(ToProcess) : ToProcess[i].fileName = f
        THEN CHOOSE i \in 1..Len(ToProcess) : ToProcess[i].fileName = f
        ELSE 0

\* file has its newly written parents and children: one row per parent
\* chunk, with the file's current hash, and an entry for every child
HasNewParentsAndChildren(file) ==
  LET chunks == serviceChunk(chunkingService, file.content)
      rows == RowsOf(parents, file.fileName)
  IN  /\ {r.parentIndex : r \in rows} = {j - 1 : j \in 1..Len(chunks)}
      /\ \A r \in rows :
           /\ r.hash = computeHash(file.content)
           /\ r.content = chunks[r.parentIndex + 1].text
           /\ \A k \in 1..Len(chunks[r.parentIndex + 1].children) :
                \E e \in EntriesOf(vectors, file.fileName) :
                  /\ e.metadata.parentId = r.id
                  /\ e.metadata.childIndex = k - 1

\* file has exactly the rows and entries it had when the run started
UntouchedByRun(f) ==
  /\ RowsOf(parents, f) = RowsOf(parentsAtStart, f)
  /\ EntriesOf(vectors, f) = EntriesOf(vectorsAtStart, f)

\* C1 as stated, for runs without reset: when a collaborator call about
\* file k of the files to process fails, the run is aborted, every file
\* before k has its newly written parents and children, and every file
\* after k has exactly the parent rows and vector entries it had when the
\* run started.
C1_AbortLeavesOtherFilesIntact ==
  (RunAborted /\ ~reset /\ Classified /\ FailedAt > 0) =>
    \A i \in 1..Len(ToProcess) :
      /\ i < FailedAt => HasNewParentsAndChildren(ToProcess[i])
      /\ i > FailedAt => UntouchedByRun(ToProcess[i].fileName)

\* C2: in a run, a changed file gets at most one deleteBySourceFile and one
\* deleteDocuments, exactly one of each once the run is done, and both
\* precede every insertParents and addDocuments call about that file.
C2_ChangedFileDeletedOnceBeforeReinsert ==
  Classified =>
    \A i \in 1..Len(currentFiles) :
      LET file == currentFiles[i]
          f == file.fileName
          dp == CallsAbout("deleteBySourceFile", f)
          dv == CallsAbout("deleteDocuments", f)
      IN  Changed(file) =>
            /\ Cardinality(dp) <= 1
            /\ Cardinality(dv) <= 1
            /\ pc = "done" => Cardinality(dp) = 1 /\ Cardinality(dv) = 1
            /\ \A p \in CallsAbout("insertParents", f) \cup CallsAbout("addDocuments", f) :
                 /\ \E q \in dp : q < p
                 /\ \E q \in dv : q < p

\* C2 witness: a completed run re-inserted a changed file.
C2_Witness ==
  /\ pc = "done"
  /\ \E i \in 1..Len(currentFiles) :
       /\ Changed(currentFiles[i])
       /\ CallsAbout("addDocuments", currentFiles[i].fileName) # {}

\* C3: no two parent rows share (sourceFile, parentIndex), and insertParents
\* is only ever called for a source file that has no parent row.
C3_ParentIndexUnique ==
  /\ \A r, q \in parents :
       (r.sourceFile = q.sourceFile /\ r.parentIndex = q.parentIndex) => r = q
  /\ pc = "insertParents" => RowsOf(parents, PendingFile) = {}

\* C3 witness: after an aborted run, insertParents is about to be called for
\* a file that had parent rows when the run started.
C3_Witness ==
  /\ pc = "insertParents"
  /\ aborted
  /\ RowsOf(parentsAtStart, PendingFile) # {}

\* C4 as stated: at the end of every run that completes without error, every
\* vector entry's parentId is the id of a parent row of the same source file.
C4_NoOrphanEntryAtEndOfRun ==
  pc = "done" =>
    \A e \in vectors :
      \E r \in parents :
        r.id = e.metadata.parentId /\ r.sourceFile = e.metadata.sourceFile

\* C5: each current file is in exactly one of add (name not recorded),
\* update (recorded, hash differs) and skip (recorded, hash equal), and the
\* delete list is exactly the recorded names absent from the current files.
C5_ClassificationIsPartition ==
  Classified =>
    /\ \A i \in 1..Len(currentFiles) :
         LET file == currentFiles[i]
         IN  /\ Occurrences(filesToAdd, file) =
                  (IF file.fileName \notin RecordedNames THEN 1 ELSE 0)
             /\ Occurrences(filesToUpdate, file) = (IF Changed(file) THEN 1 ELSE 0)
             /\ Unchanged(file) => ~InList(filesToAdd, file) /\ ~InList(filesToUpdate, file)
             /\ Occurrences(filesToAdd, file) + Occurrences(filesToUpdate, file) <= 1
    /\ \A i \in 1..Len(ToProcess) : InList(currentFiles, ToProcess[i])
    /\ {filesToDelete[i] : i \in 1..Len(filesToDelete)} = RecordedNames \ CurrentNames
    /\ \A f \in RecordedNames : Occurrences(filesToDelete, f) <= 1

\* C5 witness: a run has classified one current file as an add while a
\* recorded name is absent from the current files (a delete).
C5_Witness ==
  /\ Classified
  /\ Len(filesToAdd) > 0
  /\ Len(filesToDelete) > 0
  /\ \E i \in 1..Len(currentFiles) : currentFiles[i].fileName \notin RecordedNames

\* C6: a file whose hash equals its recorded hash is the subject of no
\* mutating store call of the run, and keeps the parent rows and vector
\* entries it had when the run started.
C6_UnchangedFileUntouched ==
  Classified =>
    \A i \in 1..Len(currentFiles) :
      LET file == currentFiles[i]
          f == file.fileName
      IN  Unchanged(file) =>
            /\ \A p \in 1..Len(calls) :
                 calls[p].op \in MutatingCalls => calls[p].file # f
            /\ RowsOf(parents, f) = RowsOf(parentsAtStart, f)
            /\ EntriesOf(vectors, f) = EntriesOf(vectorsAtStart, f)

\* C6 witness: a run with an unchanged file made mutating calls about
\* another file.
C6_Witness ==
  /\ Classified
  /\ \E i \in 1..Len(currentFiles) : Unchanged(currentFiles[i])
  /\ \E p \in 1..Len(calls) : calls[p].op = "addDocuments"
  /\ \E p \in 1..Len(calls) : calls[p].op = "deleteDocuments"

\* the number of children of the parents before parent j
RECURSIVE ChildrenBefore(_, _)
ChildrenBefore(chunks, j) ==
  IF j <= 1 THEN 0 ELSE ChildrenBefore(chunks, j - 1) + Len(chunks[j - 1].children)

\* C7: the documents built for a file are, parent by parent and child by
\* child, the children of its chunks; child k of parent j has the id
\* "chunk:" fileName ":" parentId ":" k with parentId the j-th id insertParents
\* returned (the id of the file's row with parentIndex j), and metadata with
\* the same sourceFile, parentId, parentIndex and childIndex; stored entries
\* keep that id, and a file's addDocuments follows its insertParents.
C7_ChildIdsFollowParentIds ==
  /\ pc \in {"embedBatchRetrievalDocument", "addDocuments"} =>
       LET file == ProcessedList[idx]
           chunks == serviceChunk(chunkingService, file.content)
       IN  /\ Len(parentIds) = Len(chunks)
           /\ Len(allChildDocs) = ChildrenBefore(chunks, Len(chunks) + 1)
           /\ \A j \in 1..Len(chunks) :
                /\ \E r \in parents :
                     /\ r.id = parentIds[j]
                     /\ r.sourceFile = file.fileName
                     /\ r.parentIndex = j - 1
                /\ \A k \in 1..Len(chunks[j].children) :
                     LET doc == allChildDocs[ChildrenBefore(chunks, j) + k]
                     IN  /\ doc.id = <<"chunk:", file.fileName, ":", parentIds[j], ":", k - 1>>
                         /\ doc.document = chunks[j].children[k]
                         /\ doc.metadata.sourceFile = file.fileName
                         /\ doc.metadata.parentId = parentIds[j]
                         /\ doc.metadata.parentIndex = j - 1
                         /\ doc.metadata.childIndex = k - 1
  /\ \A e \in vectors :
       e.id = <<"chunk:", e.metadata.sourceFile, ":", e.metadata.parentId, ":",
                e.metadata.childIndex>>
  /\ \A p \in 1..Len(calls) :
       calls[p].op = "addDocuments" =>
         \E q \in CallsAbout("insertParents", calls[p].file) : q < p

\* C7 witness: a re-added file with two parents, the first with two
\* children, is about to be upserted and entries of an earlier file are stored.
C7_Witness ==
  /\ pc = "addDocuments"
  /\ phase = "update"
  /\ Len(parentIds) = 2
  /\ Len(allChildDocs) = 3
  /\ vectors # {}

\* C8: in a run with the reset flag, vectorDB.reset and then
\* parentStore.deleteAll have returned before the recorded hashes are read
\* and before any insertParents or addDocuments call, and the hashes read
\* are those of an empty store.
C8_ResetBeforeReinsertion ==
  reset =>
    /\ \A p \in 1..Len(calls) :
         calls[p].op \in {"getAllSourceFileHashes", "insertParents", "addDocuments"} =>
           \E q1, q2 \in 1..Len(calls) :
             /\ q1 < q2
             /\ q2 < p
             /\ calls[q1].op = "vectorDB.reset"
             /\ calls[q2].op = "parentStore.deleteAll"
    /\ Classified => existingHashes = <<>>

\* C8 witness: a reset run over non-empty stores has called insertParents.
C8_Witness ==
  /\ reset
  /\ parentsAtStart # {}
  /\ vectorsAtStart # {}
  /\ \E p \in 1..Len(calls) : calls[p].op = "insertParents"

(***************************************************************************)
(* Chunking service: properties.                                           *)
(***************************************************************************)
\* C14: for content that is empty or only whitespace, the text chunker
\* returns no chunk for every accepted (chunkSize, chunkOverlap), and
\* ParentChildChunkingService.chunk returns no parent.
C14_EmptyInEmptyOut ==
  /\ (svcPc = "chunked" /\ ~NonBlank(svcContent)) => svcResult = <<>>
  /\ (tcPc \in {"returned", "thrown"} /\ ~NonBlank(tcContent) /\ ~TcSizesRejected) =>
       (tcPc = "returned" /\ tcResult.chunks = <<>>)

\* C14 witness: the service and, with an overlap, the text chunker were
\* handed a text of line feeds and blanks.
C14_Witness ==
  /\ svcPc = "chunked"
  /\ Len(svcContent) > 1
  /\ ~NonBlank(svcContent)
  /\ svcResult = <<>>
  /\ tcPc = "returned"
  /\ tcOverlap > 0
  /\ tcResult.chunks = <<>>

\* the configuration is one the stated rule rejects: childChunkSize <= 0,
\* childChunkOverlapFactor <= 0 or >= 1, or parentChunkSizeFactor < 1
SvcConfigInvalid ==
  \/ svcConfig.childChunkSize <= 0
  \/ svcConfig.childChunkOverlapFactor[1] <= 0
  \/ svcConfig.childChunkOverlapFactor[1] >= svcConfig.childChunkOverlapFactor[2]
  \/ svcConfig.parentChunkSizeFactor[1] < svcConfig.parentChunkSizeFactor[2]

\* C15: create throws, returning no service, exactly for the configurations
\* with childChunkSize <= 0, childChunkOverlapFactor <= 0 or >= 1, or
\* parentChunkSizeFactor < 1, and returns a service for every other one.
C15_CreateValidatesConfig ==
  svcPc # "new" /\ svcPc # "idle" =>
    /\ svcPc = "thrown" <=> SvcConfigInvalid
    /\ svcPc = "thrown" => (~svcService.ok /\ svcService.error # "")
    /\ svcPc # "thrown" =>
         /\ svcService.ok
         /\ svcService.childChunkSize = svcConfig.childChunkSize

\* C15 witness: create threw for a configuration whose only fault is
\* parentChunkSizeFactor < 1.
C15_Witness ==
  /\ svcPc = "thrown"
  /\ svcConfig.childChunkSize > 0
  /\ svcConfig.childChunkOverlapFactor = <<1, 2>>
  /\ svcConfig.parentChunkSizeFactor = <<1, 2>>

\* C16: in the result of ParentChildChunkingService.chunk, a parent whose
\* text is shorter than childChunkSize has exactly one child, equal to the
\* parent's full text.
C16_ShortParentOneChildFullText ==
  svcPc = "chunked" =>
    \A i \in 1..Len(svcResult) :
      Len(svcResult[i].text) < svcService.childChunkSize =>
        svcResult[i].children = <<svcResult[i].text>>

(***************************************************************************)
(* Retrieval: properties.                                                  *)
(***************************************************************************)
\* the collaborator call op was made and has returned
RtCompleted(op) ==
  \E p \in 1..Len(rtCalls) :
    /\ rtCalls[p].op = op
    /\ ~(rtPc = "failed" /\ p = Len(rtCalls))

\* retrieve has built its entries from the rows the parent store returned
RtEntriesEmitted == rtPc \in {"returned", "ask"} /\ RtCompleted("getParents")

\* the similarities of the matched children of parent id
ChildSimilarities(id) ==
  {rtMatches[k].similarity : k \in {n \in 1..Len(rtMatches) : rtMatches[n].metadata.parentId = id}}

Maximum(S) == CHOOSE m \in S : \A x \in S : m >= x

\* C17: retrieve emits exactly one entry per parent row the parent store
\* returned, with the row's sourceFile and content and, as similarity, the
\* maximum similarity of the matched children of that parent.
C17_OneEntryPerParentWithMaxSimilarity ==
  RtEntriesEmitted =>
    /\ Len(rtResult.entries) = Len(rtRows)
    /\ \A j \in 1..Len(rtRows) :
         LET mine == {i \in 1..Len(rtResult.entries) :
                        /\ rtResult.entries[i].sourceFile = rtRows[j].sourceFile
                        /\ rtResult.entries[i].content = rtRows[j].content}
         IN  /\ Cardinality(mine) = 1
             /\ ChildSimilarities(rtRows[j].id) # {}
             /\ \A i \in mine :
                  rtResult.entries[i].similarity = Maximum(ChildSimilarities(rtRows[j].id))

\* C17 witness: three children of one parent matched, the second with the
\* highest similarity, and retrieve returned one entry.
C17_Witness ==
  /\ rtPc = "returned"
  /\ rtResult.kind = "entries"
  /\ Len(rtResult.entries) = 1
  /\ Len(rtMatches) = 3
  /\ Cardinality({rtMatches[k].metadata.parentId : k \in 1..Len(rtMatches)}) = 1
  /\ rtMatches[2].similarity > rtMatches[1].similarity
  /\ rtMatches[2].similarity > rtMatches[3].similarity

\* C18: the entries are in non-increasing order of similarity.
C18_EntriesBySimilarityDescending ==
  RtEntriesEmitted =>
    \A i, j \in 1..Len(rtResult.entries) :
      i < j => rtResult.entries[i].similarity >= rtResult.entries[j].similarity

\* C18 witness: the vector store returned the weaker match first and the
\* parent store the weaker parent first, and retrieve returned entries of
\* different similarity.
C18_Witness ==
  /\ rtPc = "returned"
  /\ rtResult.kind = "entries"
  /\ Len(rtRows) > 1
  /\ rtMatches[1].similarity < rtMatches[Len(rtMatches)].similarity
  /\ BestOrZero(rtBest, rtRows[1].id) < BestOrZero(rtBest, rtRows[Len(rtRows)].id)
  /\ rtResult.entries[1].similarity > rtResult.entries[Len(rtResult.entries)].similarity

\* C19: when the vector query returns no match, retrieve returns no entry
\* and no error and the parent store is never queried; when the parent
\* store returns no row for the matched parent ids, retrieve returns no
\* entry and no error.
C19_EmptyResultIsNotAnError ==
  /\ (RtCompleted("vectorDB.query") /\ rtMatches = <<>>) =>
       /\ rtPc = "returned"
       /\ rtResult.entries = <<>>
       /\ rtResult.kind = (IF rtMode = "retrieve" THEN "entries" ELSE "answer")
       /\ \A p \in 1..Len(rtCalls) : rtCalls[p].op # "getParents"
  /\ (RtCompleted("getParents") /\ rtRows = <<>>) =>
       /\ rtPc = "returned"
       /\ rtResult.entries = <<>>
       /\ rtResult.kind = (IF rtMode = "retrieve" THEN "entries" ELSE "answer")

\* C19 witness: the matches name a parent the store no longer holds, while
\* it holds others, and retrieve returned.
C19_Witness ==
  /\ rtMode = "retrieve"
  /\ rtPc = "returned"
  /\ rtMatches # <<>>
  /\ parents # {}
  /\ RtCompleted("getParents")
  /\ rtRows = <<>>

\* C20: for an empty or whitespace-only question, retrieve, and generate
\* through it, fails with the validation error and no embedding,
\* vector-store, parent-store or completion call is made.
C20_BlankQuestionRejectedBeforeAnyCall ==
  (rtPc # "idle" /\ WithoutWhitespace(rtQuestion) = <<>>) =>
    /\ rtPc = "failed"
    /\ rtResult.kind = "error"
    /\ rtResult.error = "question is required and cannot be empty"
    /\ rtCalls = <<>>

\* C20 witness: generate was called with a question of whitespace only.
C20_Witness ==
  /\ rtMode = "generate"
  /\ rtPc = "failed"
  /\ Len(rtQuestion) > 1
  /\ WithoutWhitespace(rtQuestion) = <<>>

(***************************************************************************)
(* Generation: properties.                                                 *)
(***************************************************************************)
\* positions of the collaborator calls of op in the call log
RtCallsOf(op) == {p \in 1..Len(rtCalls) : rtCalls[p].op = op}

\* retrieve has returned no entry to generate
RtRetrievedNothing ==
  \/ RtCompleted("vectorDB.query") /\ rtMatches = <<>>
  \/ RtCompleted("getParents") /\ rtRows = <<>>

\* C21: when the retriever returns no entry, generate returns the fixed
\* no-information message and the completion function is not called.
C21_NoEntriesNoCompletion ==
  (rtMode = "generate" /\ RtRetrievedNothing) =>
    /\ rtPc = "returned"
    /\ rtResult.kind = "answer"
    /\ rtResult.answer = NO_RESULTS_MESSAGE
    /\ RtCallsOf("ask") = {}

\* C21 witness: generate returned after the parent store had no row for
\* the parents of the matches.
C21_Witness ==
  /\ rtMode = "generate"
  /\ rtPc = "returned"
  /\ rtMatches # <<>>
  /\ RtCompleted("getParents")
  /\ rtRows = <<>>

\* a similarity in thousandths as the two decimals shown in a block
TwoDecimals(similarity) ==
  CHOOSE h \in 0..100 : 10 * h - 5 <= similarity /\ similarity < 10 * h + 5

\* the blocks for entries i..n, each numbered with its position and
\* separated by a blank line
RECURSIVE BlocksFrom(_, _)
BlocksFrom(entries, i) ==
  IF i > Len(entries) THEN <<>>
  ELSE (IF i > 1 THEN <<NL, NL>> ELSE <<>>)
       \o <<"[Document ", i, "] Source: ", entries[i].sourceFile, " (Best match: ",
            TwoDecimals(entries[i].similarity), ")", NL, entries[i].content>>
       \o BlocksFrom(entries, i + 1)

\* C22: for n >= 1 retrieved entries, the prompt handed to the completion
\* function holds one block per entry, in the order of the entries and
\* numbered 1..n, with the entry's sourceFile, similarity (two decimals) and
\* content, followed by the question; generate returns the response
\* unchanged.
C22_PromptFromEntriesInOrder ==
  rtMode = "generate" =>
    \A p \in RtCallsOf("ask") :
      rtCalls[p].outcome = "resolved" =>
        LET entries == rtResult.entries
            prompt == rtCalls[p].arg
            blocks == BlocksFrom(entries, 1)
        IN  /\ Len(entries) >= 1
            /\ entries = entriesFor(rtRows, rtBest)
            /\ SubSeq(prompt, 3, 2 + Len(blocks)) = blocks
            /\ Len(prompt) = Len(blocks) + 9
            /\ prompt[Len(blocks) + 5] = "User question: "
            /\ prompt[Len(blocks) + 6] = rtQuestion
            /\ rtPc = "returned"
            /\ rtResult.kind = "answer"
            /\ rtResult.answer = rtCalls[p].response

\* C22 witness: generate returned the response to a prompt built from
\* three entries, not all of the same similarity.
C22_Witness ==
  /\ rtMode = "generate"
  /\ rtPc = "returned"
  /\ rtResult.answer = "Answer"
  /\ Len(rtResult.entries) = 3
  /\ rtResult.entries[1].similarity > rtResult.entries[3].similarity

\* C23: per call each collaborator of the retriever and the completion
\* function is called at most once; a rejected call is the last call made,
\* and the caller gets that rejection: no answer, no entries.
C23_FailurePropagatesWithoutRetry ==
  /\ \A op \in {"embedRetrievalQuery", "vectorDB.query", "getParents", "ask"} :
       Cardinality(RtCallsOf(op)) <= 1
  /\ \A p \in 1..Len(rtCalls) :
       rtCalls[p].outcome = "rejected" =>
         /\ p = Len(rtCalls)
         /\ rtPc = "failed"
         /\ rtResult = [NoOutcome EXCEPT !.kind = "error", !.error = rtCalls[p].op]

\* C23 witness: generate failed with the rejection of the completion call.
C23_Witness ==
  /\ rtMode = "generate"
  /\ rtPc = "failed"
  /\ Len(rtCalls) = 4
  /\ rtCalls[4].op = "ask"
  /\ rtCalls[4].outcome = "rejected"

(***************************************************************************)
(* Calls in flight: properties.                                            *)
(***************************************************************************)
\* the entries retrieve returns when it runs alone and its collaborators
\* answer childMatches and rows
EntriesAlone(childMatches, rows) ==
  IF childMatches = <<>> THEN <<>>
  ELSE entriesFor(rows, parentBestSimilarity(childMatches))

\* the answers getParents can give a call that runs alone on the matches
RowsAlone(childMatches) ==
  IF childMatches = <<>> THEN {<<>>}
  ELSE getParents(parents, MapKeys(parentBestSimilarity(childMatches)))

\* what a returned call gives its caller when it runs alone with the same
\* collaborator answers
ReturnedAlone(call) ==
  LET entries == EntriesAlone(call.matches, call.rows)
  IN  IF call.mode = "retrieve"
        THEN [kind |-> "entries", entries |-> entries, answer |-> ""]
      ELSE IF entries = <<>>
        THEN [kind |-> "answer", entries |-> <<>>, answer |-> NO_RESULTS_MESSAGE]
      ELSE [kind |-> "answer", entries |-> entries, answer |-> call.response]

\* every returned call gave what it gives alone
InFlightResultsAsAlone ==
  \A c \in CallIds :
    inFlight[c].pc = "returned" =>
      /\ inFlight[c].rows \in RowsAlone(inFlight[c].matches)
      /\ inFlight[c].result.kind = ReturnedAlone(inFlight[c]).kind
      /\ inFlight[c].result.entries = ReturnedAlone(inFlight[c]).entries
      /\ inFlight[c].result.answer = ReturnedAlone(inFlight[c]).answer

\* C24: for every interleaving of two calls of retrieve / generate at their
\* awaits, the stores stay as they were and each call returns what it
\* returns when it runs alone with the same collaborator answers.
C24_InFlightCallsIndependent ==
  /\ []InFlightResultsAsAlone
  /\ [][UNCHANGED storeVars]_vars

\* C24 witness: two calls that resumed while the other was in flight have
\* both returned, with different entries.
C24_Witness ==
  /\ \A c \in CallIds :
       /\ inFlight[c].pc = "returned"
       /\ inFlight[c].overlapped
       /\ inFlight[c].result.entries # <<>>
  /\ inFlight[1].mode = "retrieve"
  /\ inFlight[2].mode = "generate"
  /\ inFlight[1].result.entries # inFlight[2].result.entries

(***************************************************************************)
(* Document sync: files without chunks, repeated runs.                     *)
(***************************************************************************)
\* the chunking service returns no parent chunk for the file
WithoutChunks(file) == Len(serviceChunk(chunkingService, file.content)) = 0

\* the positions of the processFiles calls about file f
ProcessCallsAbout(f) ==
  CallsAbout("insertParents", f) \cup CallsAbout("embedBatchRetrievalDocument", f)
    \cup CallsAbout("addDocuments", f)

\* C25: a file to process for which the chunker returns no chunk gets no
\* insertParents, embed or addDocuments call, and when the run completes
\* every file after it that has chunks got its insertParents and
\* addDocuments calls.
C25_FileWithoutChunksSkipped ==
  Classified =>
    \A i \in 1..Len(ToProcess) :
      WithoutChunks(ToProcess[i]) =>
        /\ ProcessCallsAbout(ToProcess[i].fileName) = {}
        /\ pc = "done" =>
             \A j \in (i + 1)..Len(ToProcess) :
               ~WithoutChunks(ToProcess[j]) =>
                 /\ CallsAbout("insertParents", ToProcess[j].fileName) # {}
                 /\ CallsAbout("addDocuments", ToProcess[j].fileName) # {}

\* C25 witness: a completed run whose first file to process had no chunks
\* and whose second file was inserted.
C25_Witness ==
  /\ pc = "done"
  /\ Len(ToProcess) = 2
  /\ WithoutChunks(ToProcess[1])
  /\ CallsAbout("addDocuments", ToProcess[2].fileName) # {}

\* the children of the parent chunk stored in row r
ChildrenOfRow(r) ==
  chunk(r.content, chunkingService.childChunkSize, chunkingService.childChunkOverlap).chunks

\* this run, without reset, has read the files the previous run read, and
\* the previous run ended with outcome
RepeatsRunThat(outcome) ==
  /\ ~reset
  /\ previous.sameFiles
  /\ previous.outcome = outcome

\* C29: a run without reset over the files of the previous run, which
\* completed without error, makes no insertParents, addDocuments,
\* deleteBySourceFile or deleteDocuments call and leaves both stores as
\* they were.
C29_SecondRunChangesNothing ==
  RepeatsRunThat("done") =>
    /\ \A p \in 1..Len(calls) : calls[p].op \notin MutatingCalls
    /\ parents = parentsAtStart
    /\ vectors = vectorsAtStart

\* C29 witness: the second run over two stored files has completed.
C29_Witness ==
  /\ RepeatsRunThat("done")
  /\ pc = "done"
  /\ Len(currentFiles) = 2
  /\ \A i \in 1..2 : RowsOf(parents, currentFiles[i].fileName) # {}
  /\ vectors # {}

\* every current file with chunks has rows, all with its current hash
CurrentFilesStored ==
  \A i \in 1..Len(currentFiles) :
    ~WithoutChunks(currentFiles[i]) =>
      /\ RowsOf(parents, currentFiles[i].fileName) # {}
      /\ \A r \in RowsOf(parents, currentFiles[i].fileName) :
           r.hash = computeHash(currentFiles[i].content)

\* every child of every stored parent has its entry in the vector store
ChildrenStored ==
  \A r \in parents :
    \A k \in 1..Len(ChildrenOfRow(r)) :
      \E e \in vectors : e.metadata.parentId = r.id /\ e.metadata.childIndex = k - 1

\* no entry of the vector store refers to a parent that is not stored
NoOrphanEntry == \A e \in vectors : \E r \in parents : r.id = e.metadata.parentId

\* C30 as stated: a run without reset that completes without error over
\* the files of a previous, aborted run leaves the stores consistent: each
\* current file with chunks has its rows with the current hash, each child
\* of each stored parent is in the vector store, and no vector entry
\* refers to a missing parent.
C30_ConsistentAfterAbortedRun ==
  (RepeatsRunThat("failed") /\ pc = "done") =>
    /\ CurrentFilesStored
    /\ ChildrenStored
    /\ NoOrphanEntry

(***************************************************************************)
(* Chunking service: children of a parent.                                 *)
(***************************************************************************)
\* C26 as stated: for consecutive children c, d of one parent, with
\* overlap = floor(childChunkSize x childChunkOverlapFactor) > 0 and
\* length(c) >= overlap, the first `overlap` characters of d are the last
\* `overlap` characters of c.
C26_ChildStartsWithEndOfPrevious ==
  svcPc = "chunked" =>
    \A i \in 1..Len(svcResult) :
      \A k \in 1..(Len(svcResult[i].children) - 1) :
        LET c == svcResult[i].children[k]
            d == svcResult[i].children[k + 1]
            overlap == FloorTimes(svcConfig.childChunkSize, svcConfig.childChunkOverlapFactor)
        IN  (overlap > 0 /\ Len(c) >= overlap) =>
              /\ Len(d) >= overlap
              /\ SubSeq(d, 1, overlap) = LastChars(c, overlap)

\* the length of child k without the characters it took from child k - 1
RECURSIVE OwnLength(_, _, _)
OwnLength(children, k, overlap) ==
  IF k = 1 THEN Len(children[1])
  ELSE Len(children[k]) - Min(overlap, OwnLength(children, k - 1, overlap))

\* C26 as the code has it: for consecutive children c, d of one parent,
\* with overlap = floor(childChunkSize x childChunkOverlapFactor) > 0, when
\* c without the characters it took from its own predecessor has at least
\* `overlap` characters, the first `overlap` characters of d are the last
\* `overlap` characters of c; when it has fewer, d starts with all of them.
C26_ChildStartsWithEndOfPreviousOwnText ==
  svcPc = "chunked" =>
    \A i \in 1..Len(svcResult) :
      \A k \in 1..(Len(svcResult[i].children) - 1) :
        LET c == svcResult[i].children[k]
            d == svcResult[i].children[k + 1]
            overlap == FloorTimes(svcConfig.childChunkSize, svcConfig.childChunkOverlapFactor)
            taken == Min(overlap, OwnLength(svcResult[i].children, k, overlap))
        IN  overlap > 0 =>
              /\ Len(d) > taken
              /\ SubSeq(d, 1, taken) = LastChars(c, taken)

\* C26 witness: a parent with three children, the second of which has
\* fewer characters of its own than the overlap.
C26_Witness ==
  /\ svcPc = "chunked"
  /\ \E i \in 1..Len(svcResult) :
       LET overlap == FloorTimes(svcConfig.childChunkSize, svcConfig.childChunkOverlapFactor)
       IN  /\ Len(svcResult[i].children) = 3
           /\ OwnLength(svcResult[i].children, 1, overlap) >= overlap
           /\ OwnLength(svcResult[i].children, 2, overlap) < overlap
           /\ Len(svcResult[i].children[2]) >= overlap

\* C27 as stated: every parent in the result of
\* ParentChildChunkingService.chunk has at least one child.
C27_EveryParentHasChild ==
  svcPc = "chunked" =>
    \A i \in 1..Len(svcResult) : Len(svcResult[i].children) >= 1

\* C28 as stated: every chunk the text chunker returns, and so every child
\* text of the chunking service, has a character that is not whitespace.
C28_NoBlankChunk ==
  /\ tcPc = "returned" =>
       \A i \in 1..Len(tcResult.chunks) : NonBlank(tcResult.chunks[i])
  /\ svcPc = "chunked" =>
       \A i \in 1..Len(svcResult) :
         \A k \in 1..Len(svcResult[i].children) : NonBlank(svcResult[i].children[k])
====
